---- MODULE Spec2Model ----
(***************************************************************************)
(* ProductBrowser: the catalog proxy (ProductAPI/Controllers/              *)
(* ProductController.cs).  GetProduct is a read-through cache over the     *)
(* upstream single-item endpoint; GetProducts normalises the upstream      *)
(* listing/search endpoints into a page-oriented shape.                    *)
(*                                                                         *)
(* Each request is a small process: it runs up to its await of the         *)
(* upstream call, the upstream answers, and the continuation runs to the   *)
(* response.  Time is a clock in seconds that advances between steps.      *)
(***************************************************************************)
EXTENDS Integers, Sequences, FiniteSets, TLC

\* ------------------------------------------------------------------ bounds
MaxKeys == 4        \* changes of the search text in one run
MaxClock == 1500    \* the browser's clock stops advancing here
MaxPage == 6        \* goToNextPage stops here
MaxHooks == 2       \* hook instances rendered on one query client
MaxCalls == 2       \* network calls of the client in one run
MaxBrowseCalls == 4 \* network calls of the product list in one run
MaxRetryCalls == 4  \* network calls of the hooks on a test client in one run
MaxCallbacks == 7   \* the onClose callbacks useDrawer is rendered with
MaxTimers == 2      \* close timeouts pending at once
MaxListClock == 300000  \* the clock's end in the runs of the list query
MaxItemClock == 120000  \* the clock's end in the runs of the item query
MaxId == 2          \* product identifiers 1..MaxId
MaxVer == 2         \* revisions of one upstream product
MaxReq == 2         \* detail requests that can be in flight together
MaxTime == 120      \* the clock stops advancing here

Ids == 1..MaxId
Reqs == 1..MaxReq
TimeSteps == {59, 61}

\* ------------------------------------------------------- program constants
CacheTtl == 60      \* TimeSpan.FromMinutes(1), in seconds
PageSize == 12      \* var limit = 12

VARIABLES
    now,        \* the clock the cache reads, seconds
    upstream,   \* the upstream catalog: per id, its revision (0: no such product)
    cache,      \* IMemoryCache _cache: key -> entry
    req,        \* the GetProduct requests in flight: position and locals
    resp,       \* the response the proxy sent last
    lastStore,  \* history: per id, the latest _cache.Set (when, what, how many so far)
    lreq        \* the GetProducts request: position, locals and response

VARIABLES
    clock,      \* the browser's clock, milliseconds
    searchText, \* ProductPage: the search text state
    debounce,   \* useDebounce: the delayed value and its pending timeout
    typing,     \* history: the latest change of the search text and what followed
    pag,        \* usePagination: the page, the arguments of the last render, history
    queries,    \* the query client's cache: query key -> query state
    obs,        \* the useQuery observers: per hook instance, its key and options
    net,        \* the network calls of the client that are in flight
    seqNo,      \* history: the number of network calls issued so far
    lastq,      \* history: the latest step of the query client
    selectedProductId,  \* ProductPage: the selected product's id, or none
    scroll,     \* the window's scroll offset and the body's scroll lock
    drawer,     \* useDrawer: its arguments, isDrawerOpen and the pending frame
    closeTimers \* ProductDetail: the timeouts of handleClose that are pending

detailVars == <<now, upstream, cache, req, resp, lastStore>>
proxyVars == <<now, upstream, cache, req, resp, lastStore, lreq>>
debounceVars == <<searchText, debounce, typing>>
queryVars == <<queries, obs, net, seqNo, lastq>>
drawerVars == <<drawer, closeTimers>>
pageVars == <<selectedProductId, scroll, drawerVars>>
clientVars == <<clock, debounceVars, pag, queryVars, pageVars>>
notDebounce == <<proxyVars, pag, queryVars, pageVars>>
notPagination == <<proxyVars, clock, debounceVars, queryVars, pageVars>>
notQuery == <<proxyVars, debounceVars, pag, pageVars>>
notPage == <<proxyVars, clock, debounceVars, pag, queryVars>>
vars == <<proxyVars, clientVars>>

\* ------------------------------------------------------------ ProductDto
\* A product snapshot is the id and the upstream revision it was read at;
\* Null is the null reference (the body "null" deserialises to it).
Null == [id |-> 0, ver |-> 0]
Product(i, v) == [id |-> i, ver |-> v]

\* ------------------------------------------------------------- responses
NoResult == [status |-> 0, product |-> Null, error |-> ""]
Ok(p) == [status |-> 200, product |-> p, error |-> ""]
NotFound(msg) == [status |-> 404, product |-> Null, error |-> msg]
StatusCode(code, msg) == [status |-> code, product |-> Null, error |-> msg]

\* ------------------------------------------------- upstream HTTP answers
\* What _httpClient.GetAsync produces: an exception (no answer), or a status
\* with a body; a body is a product JSON, the literal null, or unparsable.
NoAnswer == [kind |-> "none", status |-> 0, body |-> "", product |-> Null]
Threw == [kind |-> "exception", status |-> 0, body |-> "", product |-> Null]
Answer(code, body, p) == [kind |-> "response", status |-> code, body |-> body, product |-> p]

\* The answers upstream can give for id in its current state.
UpstreamAnswers(id) ==
    {Threw, Answer(500, "", Null), Answer(200, "garbage", Null), Answer(200, "null", Null)}
    \cup (IF upstream[id] # 0
            THEN {Answer(200, "json", Product(id, upstream[id]))}
            ELSE {Answer(404, "", Null)})

\* response.EnsureSuccessStatusCode(): throws unless the status is 2xx.
IsSuccessStatusCode(a) == a.status >= 200 /\ a.status <= 299

\* JsonSerializer.Deserialize<ProductDto>: throws on an unparsable body.
DeserializeThrows(a) == a.body \notin {"json", "null"}
Deserialize(a) == IF a.body = "json" THEN a.product ELSE Null

\* ------------------------------------------------------------ IMemoryCache
\* One cache key for every product: "product_" without the id.
CacheKeyWithoutId(id) == <<"product_", 1>>
\* string cacheKey = $"product_{id}"  (ProductController.cs line 181)
CacheKey(id) == <<"product_", id>>
Keys == {CacheKey(id) : id \in Ids}
NoEntry == [present |-> FALSE, value |-> Null, expiresAt |-> 0]

\* An entry with an absolute expiration is expired once the clock reaches it.
IsExpired(e, t) == e.expiresAt <= t

\* _cache.TryGetValue(key, out value)
TryGetValue(c, key, t) == c[key].present /\ ~IsExpired(c[key], t)

\* Mutant: the entry lives one second (TimeSpan.FromSeconds(1)).
AbsoluteExpirationSeconds(t) == t + 1

\* new MemoryCacheEntryOptions().SetAbsoluteExpiration(TimeSpan.FromMinutes(1))
AbsoluteExpiration(t) == t + CacheTtl

\* Mutant: a sliding expiration, every read restarts the entry's minute.
AfterReadSliding(c, key, t) == [c EXCEPT ![key].expiresAt = AbsoluteExpiration(t)]

\* The store after a read of key: the options set an absolute expiration and
\* no sliding one, so a read leaves the entry as it is.
AfterRead(c, key, t) == c

\* Mutant: the store keeps a live entry and drops the new value (GetOrCreate).
CacheSetIfAbsent(c, key, value, t) ==
    IF c[key].present /\ ~IsExpired(c[key], t)
      THEN c
      ELSE [c EXCEPT ![key] = [present |-> TRUE, value |-> value,
                               expiresAt |-> AbsoluteExpiration(t)]]

\* _cache.Set(key, value, options)
CacheSet(c, key, value, t) ==
    [c EXCEPT ![key] = [present |-> TRUE, value |-> value,
                        expiresAt |-> AbsoluteExpiration(t)]]

NeverStored == [at |-> -1, value |-> Null, count |-> 0]

\* ------------------------------------------------------- GetProduct(id)
\* A request slot: where the request is, its id and the upstream calls it has
\* made.
Idle == [pc |-> "idle", id |-> 0, calls |-> 0]
InFlight(r) == req[r].pc = "awaiting"

\* The response a finished request sent: the id asked for, how it was served
\* (from the cache, or after which upstream answer), the result and when.
NoResponse == [id |-> 0, hit |-> FALSE, calls |-> 0, answer |-> NoAnswer,
               result |-> NoResult, at |-> 0]

\* Lines 171-193: look the key up; a hit returns the cached product at once,
\* a miss issues the upstream call and awaits it.  A new request takes the
\* lowest free slot.
GetProductBegin(r, id) ==
    /\ ~InFlight(r)
    /\ \A q \in 1..(r - 1) : InFlight(q)
    /\ IF TryGetValue(cache, CacheKey(id), now)
         THEN /\ resp' = [id |-> id, hit |-> TRUE, calls |-> 0, answer |-> NoAnswer,
                          result |-> Ok(cache[CacheKey(id)].value), at |-> now]
              /\ cache' = AfterRead(cache, CacheKey(id), now)
              /\ UNCHANGED req
         ELSE /\ req' = [req EXCEPT ![r] = [pc |-> "awaiting", id |-> id, calls |-> 1]]
              /\ UNCHANGED <<resp, cache>>
    /\ UNCHANGED <<now, upstream, lastStore, lreq, clientVars>>

\* Mutant: the 404 handler without its "when" filter, every failing status
\* is reported as not found.
GetProductResultNoFilter(a) ==
    IF a.kind = "exception" THEN StatusCode(500, "Failed to fetch product details")
    ELSE IF ~IsSuccessStatusCode(a) THEN NotFound("Product not found")
    ELSE IF DeserializeThrows(a) THEN StatusCode(500, "Failed to fetch product details")
    ELSE Ok(Deserialize(a))

\* The result of the continuation, lines 193-226, for the answer a.
GetProductResult(a) ==
    IF a.kind = "exception" THEN StatusCode(500, "Failed to fetch product details")
    ELSE IF ~IsSuccessStatusCode(a)
      THEN IF a.status = 404 THEN NotFound("Product not found")
           ELSE StatusCode(500, "Failed to fetch product details")
    ELSE IF DeserializeThrows(a) THEN StatusCode(500, "Failed to fetch product details")
    ELSE Ok(Deserialize(a))

\* Mutant: the not-found answer is cached as well (negative caching).
GetProductStoresNotFound(a) ==
    a.kind = "response" /\ (a.status = 404 \/ (IsSuccessStatusCode(a) /\ ~DeserializeThrows(a)))

\* Whether the continuation reaches _cache.Set (line 209).
GetProductStores(a) ==
    a.kind = "response" /\ IsSuccessStatusCode(a) /\ ~DeserializeThrows(a)

\* Lines 193-226: upstream answers and the continuation after the await runs.
GetProductResume(r) ==
    /\ req[r].pc = "awaiting"
    /\ \E a \in UpstreamAnswers(req[r].id) :
       LET id == req[r].id
       IN /\ resp' = [id |-> id, hit |-> FALSE, calls |-> req[r].calls, answer |-> a,
                      result |-> GetProductResult(a), at |-> now]
          /\ req' = [req EXCEPT ![r] = Idle]
          /\ IF GetProductStores(a)
               THEN /\ cache' = CacheSet(cache, CacheKey(id), Deserialize(a), now)
                    /\ lastStore' = [lastStore EXCEPT ![id] =
                                        [at |-> now, value |-> Deserialize(a),
                                         count |-> lastStore[id].count + 1]]
               ELSE UNCHANGED <<cache, lastStore>>
    /\ UNCHANGED <<now, upstream, lreq, clientVars>>

\* ------------------------------------------------------------ environment
\* Time passes.
Tick ==
    /\ \E d \in TimeSteps : now + d <= MaxTime /\ now' = now + d
    /\ UNCHANGED <<upstream, cache, req, resp, lastStore, lreq, clientVars>>

\* The upstream catalog changes a product: another revision, created or deleted.
UpstreamChange(id) ==
    /\ \E v \in (0..MaxVer) \ {upstream[id]} : upstream' = [upstream EXCEPT ![id] = v]
    /\ UNCHANGED <<now, cache, req, resp, lastStore, lreq, clientVars>>

\* ---------------------------------------------------- strings and Int32
\* A C# string is null or a sequence of characters.
NullString == [null |-> TRUE, chars |-> <<>>]
Str(cs) == [null |-> FALSE, chars |-> cs]
IsNullOrEmpty(s) == s.null \/ Len(s.chars) = 0

Two16 == 2^16
Int32Max == (2^30 - 1) * 2 + 1
Int32Min == -Int32Max - 1

\* page - 1 in unchecked Int32 arithmetic.
Int32Pred(x) == IF x = Int32Min THEN Int32Max ELSE x - 1

\* x * m in unchecked Int32 arithmetic, for 0 <= m < 2^15: the low 32 bits of
\* the product, computed on the two 16-bit halves of x's two's complement.
Int32Mul(x, m) ==
    LET hi == (x \div Two16) % Two16
        lo == x % Two16
        plo == lo * m
        rlo == plo % Two16
        rhi == (hi * m + plo \div Two16) % Two16
    IN IF rhi >= Two16 \div 2 THEN (rhi - Two16) * Two16 + rlo ELSE rhi * Two16 + rlo

\* var skip = (page - 1) * limit  (line 79)
SkipOf(page, limit) == Int32Mul(Int32Pred(page), limit)

\* Int32.ToString(): the decimal digits, with a leading "-" when negative.
DigitChars == <<"0", "1", "2", "3", "4", "5", "6", "7", "8", "9">>
RECURSIVE NatDigits(_)
NatDigits(n) ==
    IF n < 10 THEN <<DigitChars[n + 1]>>
    ELSE NatDigits(n \div 10) \o <<DigitChars[(n % 10) + 1]>>
FormatInt(n) ==
    IF n >= 0 THEN NatDigits(n)
    ELSE LET last == (10 - (n % 10)) % 10
             rest == -(n \div 10) - (IF n % 10 = 0 THEN 0 ELSE 1)
         IN <<"-">> \o (IF rest = 0 THEN <<>> ELSE NatDigits(rest)) \o <<DigitChars[last + 1]>>

\* --------------------------------------------------------- the request URL
\* A URL is a sequence of tokens: the fixed parts as words, the rest character
\* by character.
BaseUrl == "https://dummyjson.com"

\* Lines 84-94: the URL is the interpolated string, the term put in as it is.
BuildUrl(search, limit, skip) ==
    IF ~IsNullOrEmpty(search)
      THEN <<BaseUrl, "/products/search", "?", "q", "=">> \o search.chars
             \o <<"&", "limit", "=">> \o FormatInt(limit)
             \o <<"&", "skip", "=">> \o FormatInt(skip)
      ELSE <<BaseUrl, "/products", "?", "limit", "=">> \o FormatInt(limit)
             \o <<"&", "skip", "=">> \o FormatInt(skip)

\* The first position of token c in u, 0 if there is none.
RECURSIVE IndexFrom(_, _, _)
IndexFrom(u, c, i) ==
    IF i > Len(u) THEN 0 ELSE IF u[i] = c THEN i ELSE IndexFrom(u, c, i + 1)
IndexOf(u, c) == IndexFrom(u, c, 1)

\* _httpClient.GetAsync(url) (line 98): the request line carries the path and
\* the query of the URI, that is the URL up to a "#", spaces escaped.
RequestTarget(url) ==
    LET h == IndexOf(url, "#")
        kept == IF h = 0 THEN url ELSE SubSeq(url, 1, h - 1)
    IN [i \in 1..Len(kept) |-> IF kept[i] = " " THEN "%20" ELSE kept[i]]

\* The query of a request target, split at "&" into name=value pairs.
RECURSIVE SplitPairs(_)
SplitPairs(q) ==
    IF Len(q) = 0 THEN <<>>
    ELSE LET a == IndexOf(q, "&")
             first == IF a = 0 THEN q ELSE SubSeq(q, 1, a - 1)
             rest == IF a = 0 THEN <<>> ELSE SubSeq(q, a + 1, Len(q))
             e == IndexOf(first, "=")
             pair == IF e = 0 THEN [name |-> first, value |-> <<>>]
                     ELSE [name |-> SubSeq(first, 1, e - 1),
                           value |-> SubSeq(first, e + 1, Len(first))]
         IN <<pair>> \o SplitPairs(rest)

Unescape(cs) == [i \in 1..Len(cs) |-> IF cs[i] = "%20" THEN " " ELSE cs[i]]

\* The value upstream reads for a query parameter: the first pair of that name.
QueryParam(target, name) ==
    LET q == IndexOf(target, "?")
        pairs == IF q = 0 THEN <<>> ELSE SplitPairs(SubSeq(target, q + 1, Len(target)))
        hits == {i \in 1..Len(pairs) : pairs[i].name = <<name>>}
    IN IF hits = {} THEN [given |-> FALSE, value |-> <<>>]
       ELSE [given |-> TRUE,
             value |-> Unescape(pairs[CHOOSE i \in hits : \A j \in hits : i <= j].value)]

\* A decimal parameter read back as a number.
DigitValue(c) == CHOOSE d \in 0..9 : DigitChars[d + 1] = c
IsDigit(c) == \E d \in 0..9 : DigitChars[d + 1] = c
RECURSIVE NegValue(_, _)
NegValue(cs, acc) ==
    IF Len(cs) = 0 THEN acc ELSE NegValue(Tail(cs), acc * 10 - DigitValue(Head(cs)))
ParseInt(cs) ==
    LET neg == Len(cs) > 0 /\ Head(cs) = "-"
        ds == IF neg THEN Tail(cs) ELSE cs
    IN IF Len(ds) = 0 \/ \E i \in 1..Len(ds) : ~IsDigit(ds[i])
         THEN [ok |-> FALSE, value |-> 0]
         ELSE [ok |-> TRUE, value |-> IF neg THEN NegValue(ds, 0) ELSE -NegValue(ds, 0)]

\* What the upstream service receives for a URL: the endpoint and the three
\* query parameters.
UpstreamSees(url) ==
    LET t == RequestTarget(url)
    IN [endpoint |-> t[2],
        q |-> QueryParam(t, "q"),
        limit |-> IF QueryParam(t, "limit").given
                    THEN ParseInt(QueryParam(t, "limit").value)
                    ELSE [ok |-> FALSE, value |-> 0],
        skip |-> IF QueryParam(t, "skip").given
                   THEN ParseInt(QueryParam(t, "skip").value)
                   ELSE [ok |-> FALSE, value |-> 0]]

\* ------------------------------------------------ GetProducts(search, page)
\* The inputs of the list endpoint.
Searches ==
    {NullString, Str(<<>>), Str(<<" ">>), Str(<<"p", "h", "o", "n", "e">>),
     Str(<<"a", "&", "b">>), Str(<<"a", "#", "b">>)}
Pages == {Int32Min, -178956970, -178956969, 0, 1, 3, 178956971, 178956972}
NoPage == [given |-> FALSE, value |-> 0]
PageArgs == {NoPage} \cup {[given |-> TRUE, value |-> p] : p \in Pages}

\* [FromQuery] int page = 1  (line 69)
BindPage(arg) == IF arg.given THEN arg.value ELSE 1

\* The upstream list answers: an exception, a status, and for a 200 a body:
\* unparsable, the literal null, or the JSON of a DummyJsonResponse whose total
\* may be left out.
Totals == {-13, -1, 0, 1, 12, 25, 100}
NoListAnswer ==
    [kind |-> "none", status |-> 0, body |-> "", products |-> <<>>,
     hasTotal |-> FALSE, total |-> 0, skip |-> 0, limit |-> 0]
ListThrew == [NoListAnswer EXCEPT !.kind = "exception"]
ListStatus(code, body) == [NoListAnswer EXCEPT !.kind = "response", !.status = code, !.body = body]
ListJson(ps, hasTotal, total, skip, limit) ==
    [kind |-> "response", status |-> 200, body |-> "json", products |-> ps,
     hasTotal |-> hasTotal, total |-> total, skip |-> skip, limit |-> limit]
ListAnswers ==
    {ListThrew, ListStatus(500, ""), ListStatus(404, ""),
     ListStatus(200, "garbage"), ListStatus(200, "null")}
    \cup {ListJson(<<>>, TRUE, t, 0, 10) : t \in Totals}
    \cup {ListJson(<<Product(2, 1), Product(1, 1)>>, TRUE, t, 24, 12) : t \in Totals}
    \cup {ListJson(<<Product(1, 1)>>, FALSE, 0, 0, 12)}

\* JsonSerializer.Deserialize<DummyJsonResponse> (lines 110-113): a property
\* the JSON leaves out keeps its default, Total = 0.
DeserializeList(a) ==
    [isNull |-> a.body = "null",
     Products |-> a.products,
     Total |-> IF a.hasTotal THEN a.total ELSE 0,
     Skip |-> a.skip, Limit |-> a.limit]

\* The list-view fields of a product (lines 121-131).
ListView(p) == [id |-> p.id, ver |-> p.ver, view |-> "list"]

\* Mutant: the division is done in integers, (int)Math.Ceiling(total / limit).
TotalPagesTruncated(total, limit) ==
    IF total >= 0 THEN total \div limit ELSE -((-total) \div limit)

\* (int)Math.Ceiling(total / (double)limit)  (line 134)
TotalPages(total, limit) ==
    LET q == total \div limit
    IN IF q * limit = total THEN q ELSE q + 1

\* The response of the list endpoint: the status and the body, whose property
\* names are "fields" (lines 118-136 and 152).
NoListResult ==
    [status |-> 0, fields |-> {}, hasProducts |-> FALSE, products |-> <<>>, total |-> 0,
     page |-> 0, totalPages |-> 0, error |-> ""]
ListError(msg) ==
    [NoListResult EXCEPT !.status = 500, !.fields = {"error"}, !.error = msg]
\* The fields of a 200 body (ProductController.cs lines 118-136); first a
\* variant that names the list items instead of products.
ListFieldsWithItems == {"items", "total", "page", "totalPages"}
ListFields == {"products", "total", "page", "totalPages"}

\* Mutant: a failing upstream status is answered with an empty first page.
GetProductsResultEmptyOnFailure(a, page, limit) ==
    IF a.kind = "exception" \/ a.body = "garbage"
      THEN ListError("Failed to fetch products")
      ELSE [status |-> 200, fields |-> ListFields, hasProducts |-> TRUE,
            products |-> <<>>, total |-> 0, page |-> page, totalPages |-> 0,
            error |-> ""]

\* Lines 98-153: the continuation after the await, for the answer a.
GetProductsResult(a, page, limit) ==
    IF a.kind = "exception" \/ a.status < 200 \/ a.status > 299
         \/ a.body \notin {"json", "null"}
      THEN ListError("Failed to fetch products")
      ELSE LET dto == DeserializeList(a)
               total == IF dto.isNull THEN 0 ELSE dto.Total
           IN [status |-> 200,
               fields |-> ListFields,
               hasProducts |-> ~dto.isNull,
               products |-> IF dto.isNull THEN <<>>
                            ELSE [i \in 1..Len(dto.Products) |-> ListView(dto.Products[i])],
               total |-> total,
               page |-> page,
               totalPages |-> TotalPages(total, limit),
               error |-> ""]

\* The list request: where it is, its arguments and locals, the upstream calls
\* made, whether it repeats the arguments of the request before it, the
\* upstream answer and the result.
LIdle ==
    [pc |-> "idle", search |-> NullString, pageGiven |-> FALSE, page |-> 0, skip |-> 0,
     url |-> <<>>, calls |-> 0, repeat |-> FALSE, answer |-> NoListAnswer,
     result |-> NoListResult]

\* Mutant: a request that repeats the one before it is answered from memory.
GetProductsBeginCached(search, arg) ==
    /\ lreq.pc \in {"idle", "done"}
    /\ LET page == BindPage(arg)
           skip == SkipOf(page, PageSize)
           same == lreq.pc = "done" /\ lreq.search = search /\ lreq.page = page
       IN lreq' = IF same /\ lreq.result.status = 200
                    THEN [lreq EXCEPT !.calls = 0, !.repeat = TRUE]
                    ELSE [pc |-> "awaiting", search |-> search, pageGiven |-> arg.given,
                          page |-> page, skip |-> skip,
                          url |-> BuildUrl(search, PageSize, skip), calls |-> 1,
                          repeat |-> same, answer |-> NoListAnswer,
                          result |-> NoListResult]
    /\ UNCHANGED <<detailVars, clientVars>>

\* Lines 67-98: bind the arguments, compute skip, build the URL and call
\* upstream.
GetProductsBegin(search, arg) ==
    /\ lreq.pc \in {"idle", "done"}
    /\ LET page == BindPage(arg)
           skip == SkipOf(page, PageSize)
       IN lreq' = [pc |-> "awaiting", search |-> search, pageGiven |-> arg.given,
                   page |-> page, skip |-> skip,
                   url |-> BuildUrl(search, PageSize, skip), calls |-> 1,
                   repeat |-> (lreq.pc = "done" /\ lreq.search = search /\ lreq.page = page),
                   answer |-> NoListAnswer, result |-> NoListResult]
    /\ UNCHANGED <<detailVars, clientVars>>

\* Lines 98-153: upstream answers and the continuation runs to the response.
GetProductsResume ==
    /\ lreq.pc = "awaiting"
    /\ \E a \in ListAnswers :
         lreq' = [lreq EXCEPT !.pc = "done", !.answer = a,
                              !.result = GetProductsResult(a, lreq.page, PageSize)]
    /\ UNCHANGED <<detailVars, clientVars>>

\* ============================================================ the client
\* product-browser: ProductPage holds the search text and the selection; the
\* hooks keep the delayed search text, the page and the queries.  The
\* browser's clock is in milliseconds; a timeout runs at the instant it is due.

\* ----------------------------------------------- ProductPage, useDebounce
\* The texts the search box can hold.
SearchTexts == {"", "a", "ab", "abc"}
\* useState('')  (ProductPage.tsx line 12)
InitialSearch == ""
\* useDebounce(search, 500)  (ProductPage.tsx line 15), with the delay shortened
\* to a fifth.
DebounceDelayShort == 500 \div 5
\* useDebounce(search, 500)  (ProductPage.tsx line 15)
DebounceDelay == 500

\* useDebounce at mount: the delayed value is the value given; there is
\* nothing to delay yet.
DebounceMounted(value, delay, t) ==
    [value |-> value, armed |-> FALSE, pending |-> value, due |-> t + delay]
\* useDebounce's effect on a change of the value: the pending timeout is
\* cleared and a new one is set for the new value, the full delay ahead.
UseDebounceEffect(d, value, delay, t) ==
    [d EXCEPT !.armed = TRUE, !.pending = value, !.due = t + delay]
\* The timeout's callback: the pending value becomes the delayed value.
UseDebounceCommit(d) == [d EXCEPT !.value = d.pending, !.armed = FALSE]

\* search={search} handed to ProductList: the text as typed.
ListSearchAsTyped == searchText
\* search={debouncedSearch}  (ProductPage.tsx lines 38-41): the text ProductList
\* queries with.
ListSearch == debounce.value

NoTyping == [keys |-> 0, changedAt |-> 0, before |-> InitialSearch, fired |-> 0]

\* handleSearchChange (ProductPage.tsx lines 19-21) and the render it causes:
\* setSearch(value), then useDebounce sees the new value.
HandleSearchChange(value) ==
    /\ value # searchText
    /\ typing.keys < MaxKeys
    /\ searchText' = value
    /\ debounce' = UseDebounceEffect(debounce, value, DebounceDelay, clock)
    /\ typing' = [keys |-> typing.keys + 1, changedAt |-> clock,
                  before |-> ListSearch, fired |-> 0]
    /\ UNCHANGED <<clock, notDebounce>>

\* The debounce timeout runs.
DebounceTimeout ==
    /\ debounce.armed /\ debounce.due = clock
    /\ debounce' = UseDebounceCommit(debounce)
    /\ typing' = [typing EXCEPT !.fired = @ + 1]
    /\ UNCHANGED <<clock, searchText, notDebounce>>

\* Time passes in the browser, up to the next timeout that is due.
ClockTick(d) ==
    /\ clock + d <= MaxClock
    /\ debounce.armed => clock + d <= debounce.due
    /\ \A t \in closeTimers : clock + d <= t.due
    /\ clock' = clock + d
    /\ UNCHANGED <<debounceVars, notDebounce>>

\* ------------------------------------------------------------ usePagination
\* The arguments the hook is rendered with, and the pages setPage is given.
InitialPages == {-1, 0, 1, 3}
SetPages == {-2, 0, 1, 2, 5}

\* The hook after its first render and effect: useState(initialPage), and the
\* effect's setPage(initialPage) changes nothing (part_004 lines 18-23).
PaginationMounted(dep, initialPage) ==
    [page |-> initialPage, dep |-> dep, initialPage |-> initialPage,
     last |-> "mount", rendered |-> <<initialPage>>]

\* The effect's dependency list without initialPage: [resetDependency].
DepsChangedResetOnly(p, dep, initialPage) == dep # p.dep
\* useEffect's dependencies [resetDependency, initialPage] against those of the
\* render before (part_004 lines 21-23).
DepsChanged(p, dep, initialPage) == dep # p.dep \/ initialPage # p.initialPage

\* A render of the hook with new arguments (part_004 lines 8-27): it returns
\* the page as it is; if a dependency changed the effect runs setPage(initialPage),
\* and if that changes the page the hook renders again with it.
UsePagination(dep, initialPage) ==
    /\ pag' = LET reset == DepsChanged(pag, dep, initialPage)
                  page == IF reset THEN initialPage ELSE pag.page
              IN [page |-> page, dep |-> dep, initialPage |-> initialPage,
                  last |-> "render",
                  rendered |-> IF page # pag.page THEN <<pag.page, page>>
                               ELSE <<pag.page>>]
    /\ UNCHANGED notPagination

\* setPage(page)
SetPage(page) ==
    /\ pag' = [pag EXCEPT !.page = page, !.last = "setPage", !.rendered = <<page>>]
    /\ UNCHANGED notPagination

\* resetPage (part_004 lines 25-27)
ResetPage ==
    /\ pag' = [pag EXCEPT !.page = pag.initialPage, !.last = "resetPage",
                          !.rendered = <<pag.initialPage>>]
    /\ UNCHANGED notPagination

\* goToNextPage (part_004 lines 29-31)
GoToNextPage ==
    /\ pag.page < MaxPage
    /\ pag' = [pag EXCEPT !.page = pag.page + 1, !.last = "next",
                          !.rendered = <<pag.page + 1>>]
    /\ UNCHANGED notPagination

Max(a, b) == IF a >= b THEN a ELSE b

\* goToPreviousPage with the lower bound 1 in place of initialPage.
GoToPreviousPageNotBelowOne ==
    /\ pag' = LET page == Max(1, pag.page - 1)
              IN [pag EXCEPT !.page = page, !.last = "previous", !.rendered = <<page>>]
    /\ UNCHANGED notPagination

\* goToPreviousPage (part_004 lines 33-35)
GoToPreviousPage ==
    /\ pag' = LET page == Max(pag.initialPage, pag.page - 1)
              IN [pag EXCEPT !.page = page, !.last = "previous", !.rendered = <<page>>]
    /\ UNCHANGED notPagination

\* --------------------------------- the query client (@tanstack/react-query)
\* useProducts (part_003) and useProduct (useProduct.ts lines 6-13) are
\* useQuery with a key, a query function, a stale time and, for the list, a
\* retry count.  A query is stale when it has no data or its data is at least
\* staleTime old; an observer fetches when it mounts on, or moves to, a stale
\* query; a fetch for a query that is already fetching joins it; refetch()
\* fetches whatever the age, and replaces a fetch in flight when there is data.
Hooks == 1..MaxHooks
ListParams == {<<1, "">>, <<1, "a">>, <<2, "">>}
\* The pages and the searches the product list is browsed with.
BrowsePages == {1, 2}
BrowseSearches == {"", "a"}
\* "number | null": null, and the numbers a product id can be.
NullId == -1
ItemIds == {NullId} \cup (0..MaxId)
\* !!id
Truthy(id) == id # NullId /\ id # 0

\* staleTime: 1000 * 60 * 5  (part_003 line 15)
ListStaleTime == 1000 * 60 * 5
\* retry: 2 + 1: one retry more than the hook asks for.
ListRetryThree == 2 + 1
\* retry: 2  (part_003 line 16)
ListRetry == 2
\* staleTime: 1000 * 60  (useProduct.ts line 11)
ItemStaleTimeInSeconds == 1 * 60
ItemStaleTime == 1000 * 60
\* The query client of App.tsx (lines 7-13) sets no retry: the library's 3.
DefaultRetry == 3

NoKey == [kind |-> "none", page |-> 0, search |-> "", id |-> NullId]
NoArgs == [page |-> 0, search |-> "", id |-> NullId]
\* queryKey: ['products', page]: the search term left out of the key.
ProductsQueryKeyPageOnly(page, term) ==
    [kind |-> "products", page |-> page, search |-> "", id |-> NullId]
\* queryKey: ['products', page, search]  (part_003 line 13)
ProductsQueryKey(page, term) ==
    [kind |-> "products", page |-> page, search |-> term, id |-> NullId]
\* queryFn: () => productsApi.getProducts(page, search)  (part_003 line 14)
ProductsArgs(page, term) == [page |-> page, search |-> term, id |-> NullId]
ProductsOptions == [staleTime |-> ListStaleTime, retry |-> ListRetry, enabled |-> TRUE]
\* queryKey: ['product', id]  (useProduct.ts line 8)
ProductQueryKey(id) == [kind |-> "product", page |-> 0, search |-> "", id |-> id]
\* queryFn: () => productsApi.getProduct(id!)  (useProduct.ts line 9)
ProductArgs(id) == [page |-> 0, search |-> "", id |-> id]
\* enabled: true: the query runs for every id, null included.
ProductOptionsAlwaysEnabled(id) ==
    [staleTime |-> ItemStaleTime, retry |-> DefaultRetry, enabled |-> TRUE]
\* enabled: !!id, staleTime: 1000 * 60  (useProduct.ts lines 10-11)
ProductOptions(id) ==
    [staleTime |-> ItemStaleTime, retry |-> DefaultRetry, enabled |-> Truthy(id)]

QueryKeys ==
    {ProductsQueryKey(a[1], a[2]) : a \in ListParams}
      \cup {ProductsQueryKey(page, term) : page \in BrowsePages, term \in BrowseSearches}
      \cup {ProductQueryKey(id) : id \in ItemIds}

\* What a query holds: the data is the answer to a call: the call's arguments,
\* which of the key's calls it was, and for an item the product received;
\* attempts counts the runs of the query function in the current fetch.
NoData == [for |-> NoArgs, gen |-> 0, body |-> Null]
NewQuery ==
    [status |-> "pending", hasData |-> FALSE, data |-> NoData, updatedAt |-> 0,
     fetching |-> FALSE, waiting |-> FALSE, retryCancelled |-> FALSE,
     failureCount |-> 0, current |-> 0, args |-> NoArgs, retry |-> 0, calls |-> 0,
     attempts |-> 0]
NoObserver ==
    [mounted |-> FALSE, key |-> NoKey, args |-> NoArgs,
     opts |-> [staleTime |-> 0, retry |-> 0, enabled |-> FALSE]]
NoQueryStep == [kind |-> "none", h |-> 0, issued |-> 0]

\* The mounted observers of a query.
Observers(o, key) == {h \in Hooks : o[h].mounted /\ o[h].key = key}

\* isStaleByTime: no data, or the data is staleTime old.
IsStale(q, staleTime, t) == ~q.hasData \/ t >= q.updatedAt + staleTime

\* shouldFetchOnMount, with the defaults refetchOnMount and retryOnMount.
ShouldFetchOnMount(q, opts, t) == opts.enabled /\ IsStale(q, opts.staleTime, t)
\* shouldFetchOptionally: the observer moved to another query, or was disabled.
ShouldFetchOptionally(q, o, key, opts, t) ==
    (o.key # key \/ ~o.opts.enabled) /\ opts.enabled /\ IsStale(q, opts.staleTime, t)

\* query.fetch: a fetch in flight is joined, unless cancelRefetch is set and
\* the query has data: then the fetch in flight is dropped for a new one.
StartsCall(q, cancelRefetch) == ~q.fetching \/ (q.hasData /\ cancelRefetch)
\* The query's reducer on "fetch".
StartFetch(q, args, opts) ==
    [q EXCEPT !.status = IF q.hasData THEN q.status ELSE "pending",
              !.fetching = TRUE, !.waiting = FALSE, !.retryCancelled = FALSE,
              !.failureCount = 0, !.current = q.calls + 1, !.args = args,
              !.retry = opts.retry, !.calls = q.calls + 1, !.attempts = 1]
\* The query function runs: one network call with the arguments it closes over.
Call(gen, key, args) == [gen |-> gen, key |-> key, args |-> args]

\* A fetch asked of query key by an observer with these arguments and options:
\* the new cache, network and call count.
FetchQuery(qs, key, args, opts, cancelRefetch) ==
    IF StartsCall(qs[key], cancelRefetch)
      THEN [queries |-> [qs EXCEPT ![key] = StartFetch(qs[key], args, opts)],
            net |-> net \cup {Call(qs[key].calls + 1, key, args)},
            seqNo |-> seqNo + 1]
      ELSE [queries |-> [qs EXCEPT ![key].retryCancelled = FALSE],
            net |-> net, seqNo |-> seqNo]

\* A render of useQuery by hook instance h with this key, query function and
\* options: the observer mounts or moves to the key's query; the query it
\* leaves stops retrying when no observer is left; it fetches if it should.
\* (Hook instances mount in the order of their numbers.)
ObserveQuery(h, key, args, opts) ==
    LET o == obs[h]
        left == IF o.mounted /\ o.key # key /\ Observers(obs, o.key) = {h}
                     /\ queries[o.key].fetching
                  THEN [queries EXCEPT ![o.key].retryCancelled = TRUE]
                  ELSE queries
        wants == IF o.mounted
                   THEN ShouldFetchOptionally(queries[key], o, key, opts, clock)
                   ELSE ShouldFetchOnMount(queries[key], opts, clock)
        after == IF wants THEN FetchQuery(left, key, args, opts, FALSE)
                 ELSE [queries |-> left, net |-> net, seqNo |-> seqNo]
    IN /\ \A g \in 1..(h - 1) : obs[g].mounted
       /\ obs' = [obs EXCEPT ![h] = [mounted |-> TRUE, key |-> key, args |-> args,
                                     opts |-> opts]]
       /\ queries' = after.queries
       /\ net' = after.net
       /\ seqNo' = after.seqNo
       /\ lastq' = [kind |-> "render", h |-> h,
                    issued |-> after.seqNo - seqNo]

\* A render of a component whose only hook is the query hook.
Observe(h, key, args, opts) ==
    /\ ObserveQuery(h, key, args, opts)
    /\ UNCHANGED <<clock, notQuery>>

\* useProducts({page, search})  (part_003 lines 11-18)
UseProducts(h, page, term) ==
    Observe(h, ProductsQueryKey(page, term), ProductsArgs(page, term), ProductsOptions)

\* useProduct(id)  (useProduct.ts lines 6-13)
UseProduct(h, id) ==
    Observe(h, ProductQueryKey(id), ProductArgs(id), ProductOptions(id))

\* createTestQueryClient(options) (part_000 lines 8-20): the client's default
\* options: retry: options?.retry ?? false, that is no retry, and staleTime 0.
TestClientRetries == {0, 2}
CreateTestQueryClient(retry) == [retry |-> retry, staleTime |-> 0]
\* The options of useProduct on a client: the hook sets enabled and staleTime,
\* and leaves retry to the client's default.
ProductOptionsOn(client, id) == [ProductOptions(id) EXCEPT !.retry = client.retry]
\* useProduct(id) rendered under createTestQueryClient({retry}), the one
\* client of all the hook instances of a test.
UseProductOnTestClient(h, id, retry) ==
    /\ \A g \in Hooks :
         (obs[g].mounted /\ obs[g].key.kind = "product") => obs[g].opts.retry = retry
    /\ Observe(h, ProductQueryKey(id), ProductArgs(id),
               ProductOptionsOn(CreateTestQueryClient(retry), id))

\* refetch() honouring the stale time: it fetches only a stale query.
RefetchIfStale(h) ==
    /\ obs[h].mounted
    /\ LET o == obs[h]
           after == IF IsStale(queries[o.key], o.opts.staleTime, clock)
                      THEN FetchQuery(queries, o.key, o.args, o.opts, TRUE)
                      ELSE [queries |-> queries, net |-> net, seqNo |-> seqNo]
       IN /\ queries' = after.queries
          /\ net' = after.net
          /\ seqNo' = after.seqNo
          /\ lastq' = [kind |-> "refetch", h |-> h,
                       issued |-> after.seqNo - seqNo]
    /\ UNCHANGED <<clock, obs, notQuery>>

\* refetch() of the hook's result: observer.refetch, with cancelRefetch.
Refetch(h) ==
    /\ obs[h].mounted
    /\ LET o == obs[h]
           after == FetchQuery(queries, o.key, o.args, o.opts, TRUE)
       IN /\ queries' = after.queries
          /\ net' = after.net
          /\ seqNo' = after.seqNo
          /\ lastq' = [kind |-> "refetch", h |-> h,
                       issued |-> after.seqNo - seqNo]
    /\ UNCHANGED <<clock, obs, notQuery>>

\* The call c is the one its query is waiting for.
Live(qs, c) == qs[c.key].fetching /\ ~qs[c.key].waiting /\ qs[c.key].current = c.gen

\* The query function's promise resolves with body at time t: if the query
\* still waits for this call the answer becomes its data, else it is dropped.
QuerySuccess(qs, c, body, t) ==
    IF Live(qs, c)
      THEN [qs EXCEPT ![c.key] =
              [@ EXCEPT !.status = "success", !.hasData = TRUE,
                        !.data = [for |-> c.args, gen |-> c.gen, body |-> body],
                        !.updatedAt = t, !.fetching = FALSE, !.failureCount = 0]]
      ELSE qs

\* The query function's promise rejects: the query retries while it has
\* failed fewer than retry times and still has an observer, else it is in
\* error.
QueryFailure(qs, c) ==
    IF ~Live(qs, c) THEN qs
    ELSE LET q == qs[c.key]
         IN IF q.failureCount < q.retry /\ ~q.retryCancelled
              THEN [qs EXCEPT ![c.key].failureCount = q.failureCount + 1,
                              ![c.key].waiting = TRUE]
              ELSE [qs EXCEPT ![c.key].failureCount = q.failureCount + 1,
                              ![c.key].status = "error",
                              ![c.key].fetching = FALSE]

\* A network call resolves.
NetSucceeds(c) ==
    /\ c \in net
    /\ net' = net \ {c}
    /\ queries' = QuerySuccess(queries, c, Null, clock)
    /\ lastq' = [kind |-> "response", h |-> 0, issued |-> 0]
    /\ UNCHANGED <<clock, obs, seqNo, notQuery>>

\* A network call rejects.
NetFails(c) ==
    /\ c \in net
    /\ net' = net \ {c}
    /\ queries' = QueryFailure(queries, c)
    /\ lastq' = [kind |-> "failure", h |-> 0, issued |-> 0]
    /\ UNCHANGED <<clock, obs, seqNo, notQuery>>

\* productsApi.getProduct(id) (productsApi.ts lines 14-17) answered by the
\* proxy: GetProduct(id) runs, from the cache or with the upstream answer a,
\* and axios resolves with the body of a 200 and rejects on any other status.
GetProductAnswers(c, a) ==
    /\ c \in net /\ c.key.kind = "product" /\ c.args.id \in Ids
    /\ a \in UpstreamAnswers(c.args.id)
    /\ LET id == c.args.id
           hit == TryGetValue(cache, CacheKey(id), now)
           result == IF hit THEN Ok(cache[CacheKey(id)].value) ELSE GetProductResult(a)
           stores == ~hit /\ GetProductStores(a)
       IN /\ cache' = IF stores THEN CacheSet(cache, CacheKey(id), Deserialize(a), now)
                      ELSE AfterRead(cache, CacheKey(id), now)
          /\ lastStore' = IF stores
                            THEN [lastStore EXCEPT ![id] =
                                    [at |-> now, value |-> Deserialize(a),
                                     count |-> lastStore[id].count + 1]]
                            ELSE lastStore
          /\ resp' = [id |-> id, hit |-> hit, calls |-> IF hit THEN 0 ELSE 1,
                      answer |-> IF hit THEN NoAnswer ELSE a, result |-> result,
                      at |-> now]
          /\ queries' = IF result.status = 200
                          THEN QuerySuccess(queries, c, result.product, clock)
                          ELSE QueryFailure(queries, c)
          /\ lastq' = [kind |-> IF result.status = 200 THEN "response" ELSE "failure",
                       h |-> 0, issued |-> 0]
    /\ net' = net \ {c}
    /\ UNCHANGED <<now, upstream, req, lreq, clock, obs, seqNo, debounceVars, pag,
                   pageVars>>

\* The retry delay of a failed call is over: the query function runs again,
\* unless the last observer has left meanwhile.
RetryRuns(key) ==
    /\ queries[key].fetching /\ queries[key].waiting
    /\ LET q == queries[key]
       IN IF q.retryCancelled
            THEN /\ queries' = [queries EXCEPT ![key].waiting = FALSE,
                                               ![key].status = "error",
                                               ![key].fetching = FALSE]
                 /\ UNCHANGED <<net, seqNo>>
                 /\ lastq' = [kind |-> "retry", h |-> 0, issued |-> 0]
            ELSE /\ queries' = [queries EXCEPT ![key].waiting = FALSE,
                                               ![key].current = q.calls + 1,
                                               ![key].calls = q.calls + 1,
                                               ![key].attempts = q.attempts + 1]
                 /\ net' = net \cup {Call(q.calls + 1, key, q.args)}
                 /\ seqNo' = seqNo + 1
                 /\ lastq' = [kind |-> "retry", h |-> 0, issued |-> 1]
    /\ UNCHANGED <<clock, obs, notQuery>>

\* What useQuery returns to hook instance h.
HookResult(h) ==
    LET q == queries[obs[h].key]
    IN [hasData |-> q.hasData, data |-> q.data,
        isPending |-> q.status = "pending",
        isLoading |-> q.status = "pending" /\ q.fetching,
        isFetching |-> q.fetching,
        isSuccess |-> q.status = "success",
        isError |-> q.status = "error"]

\* ProductList (ProductDetail.tsx lines 130-183) is hook instance 1: its prop
\* search is the search of the query it observes, and the effect of
\* usePagination(search, 1) has run once pag.dep has caught up with it.
ProductListSearch == obs[1].args.search
EffectPending == obs[1].mounted /\ pag.dep # ProductListSearch

\* ProductsResponse (types/product.ts lines 15-20) as far as ProductList reads
\* it: how many products it lists, the page, which the proxy echoes from the
\* request, and totalPages.
ListCounts == {0, 2}
ListTotalPages == {0, 1, 2}
ProductsResponse(n, page, totalPages) ==
    [products |-> n, page |-> page, totalPages |-> totalPages]
ProductsResponses(page) ==
    {ProductsResponse(n, page, totalPages) : n \in ListCounts, totalPages \in ListTotalPages}

\* productsApi.getProducts(page, search) (productsApi.ts lines 7-12) resolves
\* with the body of a 200.
GetProductsAnswers(c, body) ==
    /\ c \in net /\ c.key.kind = "products"
    /\ body \in ProductsResponses(c.args.page)
    /\ net' = net \ {c}
    /\ queries' = QuerySuccess(queries, c, body, clock)
    /\ lastq' = [kind |-> "response", h |-> 0, issued |-> 0]
    /\ UNCHANGED <<clock, obs, seqNo, notQuery>>

\* ProductList with the error branch before the loading branch.
ProductListViewErrorFirst ==
    LET r == HookResult(1)
    IN IF r.isError \/ (r.isLoading /\ queries[obs[1].key].failureCount > 0)
         THEN "error"
       ELSE IF r.isLoading THEN "loading"
       ELSE IF ~r.hasData \/ r.data.body.products = 0 THEN "empty" ELSE "grid"
\* What ProductList returns (lines 142-182): the spinner while loading, the
\* error message on error, the empty state without data or with a response
\* that lists no product, else the grid with the pagination.
ProductListView ==
    LET r == HookResult(1)
    IN IF r.isLoading THEN "loading"
       ELSE IF r.isError THEN "error"
       ELSE IF ~r.hasData \/ r.data.body.products = 0 THEN "empty" ELSE "grid"

\* Pagination with a Next button that is never disabled.
PaginationPagesNextAlways(currentPage, totalPages) ==
    {currentPage - 1 : x \in {y \in {0} : currentPage > 1}} \cup {currentPage + 1}
\* Pagination (ProductPage.tsx lines 63-89): the pages its buttons hand to
\* onPageChange: Previous is disabled at currentPage <= 1, Next at
\* currentPage >= totalPages.
PaginationPages(currentPage, totalPages) ==
    {currentPage - 1 : x \in {y \in {0} : currentPage > 1}}
      \cup {currentPage + 1 : x \in {y \in {0} : currentPage < totalPages}}

\* ProductList rendered with the prop search (lines 135-140): usePagination
\* returns the page as it is, and useProducts({page, search}) observes it.
ProductListRender(term) ==
    /\ ~EffectPending
    /\ ~obs[1].mounted => term = InitialSearch
    /\ UseProducts(1, pag.page, term)

\* The effect of usePagination after a render with a new search (part_004
\* lines 21-23): setPage(initialPage), and if that changes the page ProductList
\* renders again and useProducts observes the new page.
ProductListEffect ==
    /\ EffectPending
    /\ pag' = [pag EXCEPT !.page = pag.initialPage, !.dep = ProductListSearch,
                          !.last = "render",
                          !.rendered = IF pag.page # pag.initialPage
                                         THEN <<pag.page, pag.initialPage>>
                                         ELSE <<pag.page>>]
    /\ IF pag.page # pag.initialPage
         THEN ObserveQuery(1, ProductsQueryKey(pag.initialPage, ProductListSearch),
                           ProductsArgs(pag.initialPage, ProductListSearch),
                           ProductsOptions)
         ELSE UNCHANGED queryVars
    /\ UNCHANGED <<proxyVars, clock, debounceVars, pageVars>>

\* A click in Pagination (ProductPage.tsx lines 63-89, onPageChange={setPage},
\* currentPage={data.page}, totalPages={data.totalPages}): shown with the
\* grid, it sets the page next to the one of the data, and ProductList renders
\* again.
ProductListSetPage(page) ==
    /\ obs[1].mounted /\ ~EffectPending
    /\ ProductListView = "grid"
    /\ page \in PaginationPages(HookResult(1).data.body.page,
                                HookResult(1).data.body.totalPages)
    /\ page \in BrowsePages
    /\ pag' = [pag EXCEPT !.page = page, !.last = "setPage", !.rendered = <<page>>]
    /\ ObserveQuery(1, ProductsQueryKey(page, ProductListSearch),
                    ProductsArgs(page, ProductListSearch), ProductsOptions)
    /\ UNCHANGED <<proxyVars, clock, debounceVars, pageVars>>

\* The Retry button of the error message (ProductDetail.tsx lines 146-153).
ProductListRetry ==
    /\ obs[1].mounted /\ ~EffectPending
    /\ ProductListView = "error"
    /\ Refetch(1)

\* Time passes for the browser and the proxy alike.
WorldTick(d, limit) ==
    /\ clock + d <= limit
    /\ (clock + d) \div 1000 <= MaxTime
    /\ clock' = clock + d
    /\ now' = (clock + d) \div 1000
    /\ UNCHANGED <<upstream, cache, req, resp, lastStore, lreq, queryVars,
                   debounceVars, pag, pageVars>>

\* Time passes in the browser while the queries age.
QueryTick(d, limit) ==
    /\ clock + d <= limit
    /\ clock' = clock + d
    /\ UNCHANGED <<queryVars, notQuery>>

\* ------------------------------------------------- ProductPage, useScrollLock
\*
\* ProductPage keeps the selected product's id, null at first, and hands
\* !!selectedProductId to useScrollLock (ProductPage.tsx lines 13-17). The lock
\* is the body's class 'drawer-open' with position fixed and top -y px, y the
\* window's scroll offset when the lock was taken; a fixed body leaves the
\* window nothing to scroll, so its offset is 0 while the lock is on.
ScrollPositions == {0, 40, 150}
NoTop == -1

\* The hook after its first render with isLocked false: the effect's else
\* branch on an unlocked body, and scrollPositionRef is 0 (lines 8, 20-31).
\* locked is the class 'drawer-open'; last, calls and to are history: the
\* latest step, its scrollTo calls and the offset of the latest of them.
ScrollLockMounted ==
    [mounted |-> TRUE, isLocked |-> FALSE, locked |-> FALSE, position |-> "",
     top |-> NoTop, width |-> "", saved |-> 0, y |-> 0,
     last |-> "mount", calls |-> 0, to |-> 0]

\* The effect with isLocked true recording the offset only once, while the
\* ref is still 0.
ScrollLockOnFirstOffset(sc) ==
    [sc EXCEPT !.saved = IF sc.saved # 0 THEN sc.saved ELSE sc.y,
               !.locked = TRUE, !.position = "fixed",
               !.top = IF sc.saved # 0 THEN sc.saved ELSE sc.y,
               !.width = "100%", !.y = 0]
\* The effect with isLocked true (useScrollLock.ts lines 11-19).
ScrollLockOn(sc) ==
    [sc EXCEPT !.saved = sc.y, !.locked = TRUE, !.position = "fixed",
               !.top = sc.y, !.width = "100%", !.y = 0]

\* The effect's else branch restoring whatever is recorded, also 0.
ScrollLockOffAlwaysRestores(sc) ==
    [sc EXCEPT !.locked = FALSE, !.position = "", !.top = NoTop, !.width = "",
               !.calls = sc.calls + 1, !.to = sc.saved, !.y = sc.saved]
\* The effect with isLocked false (lines 20-31).
ScrollLockOff(sc) ==
    IF sc.saved # 0
      THEN [sc EXCEPT !.locked = FALSE, !.position = "", !.top = NoTop, !.width = "",
                      !.calls = sc.calls + 1, !.to = sc.saved, !.y = sc.saved]
      ELSE [sc EXCEPT !.locked = FALSE, !.position = "", !.top = NoTop, !.width = ""]

\* The clean-up of the effect of the render before (lines 34-42).
ScrollLockCleanup(sc, wasLocked) ==
    IF wasLocked
      THEN [sc EXCEPT !.locked = FALSE, !.position = "", !.top = NoTop, !.width = ""]
      ELSE sc

\* A render with isLocked after one with wasLocked: the effect depends on
\* [isLocked] (line 43) and runs, after the clean-up, only when it changed.
UseScrollLock(sc, wasLocked, isLocked) ==
    LET start == [sc EXCEPT !.isLocked = isLocked, !.calls = 0, !.to = 0,
                            !.last = IF isLocked = wasLocked THEN "render"
                                     ELSE IF isLocked THEN "lock" ELSE "unlock"]
    IN IF isLocked = wasLocked THEN start
       ELSE IF isLocked THEN ScrollLockOn(ScrollLockCleanup(start, wasLocked))
       ELSE ScrollLockOff(ScrollLockCleanup(start, wasLocked))

\* The hook rendered again with any argument.
ScrollLockRender(isLocked) ==
    /\ scroll.mounted
    /\ scroll' = UseScrollLock(scroll, scroll.isLocked, isLocked)
    /\ UNCHANGED <<selectedProductId, drawerVars, notPage>>

\* The component unmounts: the clean-up of the last effect runs, and the ref
\* goes with the component.
ScrollLockUnmount ==
    /\ scroll.mounted
    /\ scroll' = [ScrollLockCleanup(scroll, scroll.isLocked) EXCEPT
                    !.mounted = FALSE, !.isLocked = FALSE, !.saved = 0,
                    !.last = "unmount", !.calls = 0, !.to = 0]
    /\ UNCHANGED <<selectedProductId, drawerVars, notPage>>

\* The hook mounts: useRef(0), and the effect runs for the first time.
ScrollLockMount(isLocked) ==
    /\ ~scroll.mounted
    /\ scroll' = LET start == [scroll EXCEPT !.mounted = TRUE, !.isLocked = isLocked,
                                            !.saved = 0, !.last = "mount",
                                            !.calls = 0, !.to = 0]
                 IN IF isLocked THEN ScrollLockOn(start) ELSE ScrollLockOff(start)
    /\ UNCHANGED <<selectedProductId, drawerVars, notPage>>

\* ---------------------------------------------------------------- useDrawer
\*
\* The hook keeps isDrawerOpen, false at mount; its effect on [isOpen] asks for
\* an animation frame whose callback sets it true, and cancels that frame when
\* isOpen changes or the component unmounts; handleClose sets it false and
\* calls onClose if there is one (useDrawer.ts lines 11-42). requests, called
\* and calledWith are history: the frames the latest step asked for, its calls
\* of onClose and the callback called.
NoCallback == 0
Callbacks == {NoCallback} \cup (1..MaxCallbacks)
\* ANIMATION_DURATIONS.DRAWER_TRANSITION (productsApi.ts line 26)
DRAWER_TRANSITION == 300
NoDrawer ==
    [mounted |-> FALSE, isOpen |-> FALSE, isDrawerOpen |-> FALSE, frame |-> FALSE,
     onClose |-> NoCallback, transitionDuration |-> 0, last |-> "none",
     requests |-> 0, called |-> 0, calledWith |-> NoCallback]

\* The first render and its effect (lines 20-30).
UseDrawerMount(isOpen, onClose) ==
    [mounted |-> TRUE, isOpen |-> isOpen, isDrawerOpen |-> FALSE, frame |-> isOpen,
     onClose |-> onClose, transitionDuration |-> DRAWER_TRANSITION, last |-> "mount",
     requests |-> IF isOpen THEN 1 ELSE 0, called |-> 0, calledWith |-> NoCallback]

\* A later render: the effect asking for a frame at every render with isOpen.
UseDrawerEveryRender(d, isOpen, onClose) ==
    [d EXCEPT !.isOpen = isOpen, !.onClose = onClose, !.last = "render",
              !.frame = isOpen, !.requests = IF isOpen THEN 1 ELSE 0,
              !.called = 0, !.calledWith = NoCallback]
\* A later render: the effect runs only when isOpen changed, after the
\* clean-up of the one before, which cancels the frame (lines 23-30).
UseDrawer(d, isOpen, onClose) ==
    [d EXCEPT !.isOpen = isOpen, !.onClose = onClose, !.last = "render",
              !.frame = IF isOpen = d.isOpen THEN d.frame ELSE isOpen,
              !.requests = IF isOpen # d.isOpen /\ isOpen THEN 1 ELSE 0,
              !.called = 0, !.calledWith = NoCallback]

\* The animation frame's callback: setIsDrawerOpen(true) (lines 25-27).
UseDrawerFrame(d) ==
    [d EXCEPT !.isDrawerOpen = TRUE, !.frame = FALSE, !.last = "frame",
              !.requests = 0, !.called = 0, !.calledWith = NoCallback]

\* handleClose (lines 32-35)
UseDrawerHandleClose(d) ==
    [d EXCEPT !.isDrawerOpen = FALSE, !.last = "close", !.requests = 0,
              !.called = IF d.onClose # NoCallback THEN 1 ELSE 0,
              !.calledWith = d.onClose]

\* The component unmounts: the clean-up cancels the frame (line 28).
UseDrawerUnmount(d) == [NoDrawer EXCEPT !.last = "unmount"]

\* The hook on its own, in a component that renders it with any arguments.
DrawerMount(isOpen, onClose) ==
    /\ ~drawer.mounted
    /\ drawer' = UseDrawerMount(isOpen, onClose)
    /\ UNCHANGED <<selectedProductId, scroll, closeTimers, notPage>>

DrawerRender(isOpen, onClose) ==
    /\ drawer.mounted
    /\ drawer' = UseDrawer(drawer, isOpen, onClose)
    /\ UNCHANGED <<selectedProductId, scroll, closeTimers, notPage>>

DrawerFrame ==
    /\ drawer.mounted /\ drawer.frame
    /\ drawer' = UseDrawerFrame(drawer)
    /\ UNCHANGED <<selectedProductId, scroll, closeTimers, notPage>>

DrawerHandleClose ==
    /\ drawer.mounted
    /\ drawer' = UseDrawerHandleClose(drawer)
    /\ UNCHANGED <<selectedProductId, scroll, closeTimers, notPage>>

DrawerUnmount ==
    /\ drawer.mounted
    /\ drawer' = UseDrawerUnmount(drawer)
    /\ UNCHANGED <<selectedProductId, scroll, closeTimers, notPage>>

\* {selectedProductId && <ProductDetail .../>}  (ProductPage.tsx lines 43-48)
DetailRendered == Truthy(selectedProductId)

\* ProductDetail in a render of ProductPage: mounted with useDrawer(true) when
\* it appears, rendered again while it stays (it has no key, so another
\* product is the same component), unmounted when it goes
\* (ProductPage.tsx lines 43-48, ProductDetail.tsx line 18).
ProductDetailRender(d, wasRendered, isRendered) ==
    IF isRendered
      THEN IF wasRendered THEN UseDrawer(d, TRUE, NoCallback)
           ELSE UseDrawerMount(TRUE, NoCallback)
      ELSE IF wasRendered THEN UseDrawerUnmount(d)
           ELSE d

\* handleProductClick(product) (ProductPage.tsx lines 23-25) and the render
\* that follows, with the effect of useScrollLock(!!selectedProductId).
HandleProductClick(id) ==
    /\ selectedProductId' = id
    /\ scroll' = UseScrollLock(scroll, Truthy(selectedProductId), Truthy(id))
    /\ drawer' = ProductDetailRender(drawer, Truthy(selectedProductId), Truthy(id))
    /\ UNCHANGED <<closeTimers, notPage>>

\* handleCloseDetail (lines 27-29), the onClose handed to ProductDetail, and
\* the render that follows.
HandleCloseDetail ==
    /\ selectedProductId' = NullId
    /\ scroll' = UseScrollLock(scroll, Truthy(selectedProductId), Truthy(NullId))
    /\ drawer' = ProductDetailRender(drawer, Truthy(selectedProductId), Truthy(NullId))
    /\ UNCHANGED notPage

\* ProductDetail's handleClose (ProductDetail.tsx lines 20-26), the onClick of
\* the overlay and of the close buttons: the drawer's handleClose, and a
\* timeout of transitionDuration for onClose. sel is history: the selection
\* the close was made on.
CloseTimer(due, sel) == [due |-> due, sel |-> sel]
DetailHandleClose ==
    /\ DetailRendered
    /\ drawer' = UseDrawerHandleClose(drawer)
    /\ closeTimers' = closeTimers \cup
                         {CloseTimer(clock + drawer.transitionDuration, selectedProductId)}
    /\ UNCHANGED <<selectedProductId, scroll, notPage>>

\* A timeout of handleClose fires: onClose(), whatever is selected by now
\* (nothing clears the timeout: lines 23-25).
CloseTimerFires(t) ==
    /\ t \in closeTimers /\ t.due = clock
    /\ closeTimers' = closeTimers \ {t}
    /\ HandleCloseDetail

\* The user scrolls the window, which an unlocked body allows.
WindowScroll(y) ==
    /\ scroll.position # "fixed"
    /\ y # scroll.y
    /\ scroll' = [scroll EXCEPT !.y = y, !.last = "scroll", !.calls = 0, !.to = 0]
    /\ UNCHANGED <<selectedProductId, drawerVars, notPage>>

\* --------------------------------------------------------- specification

Init ==
    /\ now = 0
    /\ upstream = [id \in Ids |-> 1]
    /\ cache = [k \in Keys |-> NoEntry]
    /\ req = [r \in Reqs |-> Idle]
    /\ resp = NoResponse
    /\ lastStore = [id \in Ids |-> NeverStored]
    /\ lreq = LIdle
    /\ clock = 0
    /\ searchText = InitialSearch
    /\ debounce = DebounceMounted(InitialSearch, DebounceDelay, 0)
    /\ typing = NoTyping
    /\ pag = PaginationMounted(InitialSearch, 1)
    /\ queries = [k \in QueryKeys |-> NewQuery]
    /\ obs = [h \in Hooks |-> NoObserver]
    /\ net = {}
    /\ seqNo = 0
    /\ lastq = NoQueryStep
    /\ selectedProductId = NullId
    /\ scroll = ScrollLockMounted
    /\ drawer = NoDrawer
    /\ closeTimers = {}

\* Detail requests one after the other, for any ids, while time passes and
\* upstream changes product 1 (the other products stay as they are).
Next ==
    \/ \E id \in Ids : GetProductBegin(1, id)
    \/ GetProductResume(1)
    \/ Tick
    \/ UpstreamChange(1)

Spec == Init /\ [][Next]_vars

\* Detail requests for one id in flight together.
NextRace ==
    \/ \E r \in Reqs : GetProductBegin(r, 1)
    \/ \E r \in Reqs : GetProductResume(r)
    \/ Tick
    \/ UpstreamChange(1)

SpecRace == Init /\ [][NextRace]_vars

\* List requests one after the other, next to detail requests for product 1
\* that fill the cache.
NextList ==
    \/ \E search \in Searches, arg \in PageArgs : GetProductsBegin(search, arg)
    \/ GetProductsResume
    \/ GetProductBegin(1, 1)
    \/ GetProductResume(1)

SpecList == Init /\ [][NextList]_vars

\* ProductPage's search box: typing, and the delayed text following it.
DebounceSteps == {100, 400, 500}
NextDebounce ==
    \/ \E value \in SearchTexts : HandleSearchChange(value)
    \/ DebounceTimeout
    \/ \E d \in DebounceSteps : ClockTick(d)

SpecDebounce == Init /\ [][NextDebounce]_vars

\* ProductPage without its search box, which shares no state with the rest:
\* clicking products of any id a product can have, closing the detail, the
\* timeouts of closing, and scrolling.
ProductIds == 0..MaxId
NextPage ==
    \/ \E d \in DebounceSteps : ClockTick(d)
    \/ \E id \in ProductIds : HandleProductClick(id)
    \/ DrawerFrame
    \/ DetailHandleClose /\ Cardinality(closeTimers') <= MaxTimers
    \/ \E t \in closeTimers : CloseTimerFires(t)
    \/ \E y \in ScrollPositions : WindowScroll(y)

SpecPage == Init /\ [][NextPage]_vars

\* useScrollLock on its own: mounted, rendered with either argument and
\* unmounted, while the user scrolls to the offsets of the hook's tests.
HookScrollPositions == {0, 50, 100, 150, 200, 250, 300, 1000, 999999}
NextScrollLock ==
    \/ \E isLocked \in BOOLEAN : ScrollLockRender(isLocked)
    \/ ScrollLockUnmount
    \/ \E isLocked \in BOOLEAN : ScrollLockMount(isLocked)
    \/ \E y \in HookScrollPositions : WindowScroll(y)

SpecScrollLock == Init /\ [][NextScrollLock]_vars

\* useDrawer on its own: mounted, rendered and unmounted with any arguments,
\* its frame firing and handleClose called at any time.
NextDrawer ==
    \/ \E isOpen \in BOOLEAN, onClose \in Callbacks : DrawerMount(isOpen, onClose)
    \/ \E isOpen \in BOOLEAN, onClose \in Callbacks : DrawerRender(isOpen, onClose)
    \/ DrawerFrame
    \/ DrawerHandleClose
    \/ DrawerUnmount

SpecDrawer == Init /\ [][NextDrawer]_vars

\* The pagination hook under renders with any arguments and calls of its
\* functions.
NextPagination ==
    \/ \E dep \in SearchTexts, initialPage \in InitialPages :
         UsePagination(dep, initialPage)
    \/ \E page \in SetPages : SetPage(page)
    \/ ResetPage
    \/ GoToNextPage
    \/ GoToPreviousPage

SpecPagination == Init /\ [][NextPagination]_vars

\* useProducts rendered by hook instances on one query client, with refetch,
\* answers and failures of the network, retries and the passing of time.
ListSteps == {299999, 300000}
NextProducts ==
    \/ \E h \in Hooks, a \in ListParams : UseProducts(h, a[1], a[2]) /\ seqNo' <= MaxCalls
    \/ \E h \in Hooks : Refetch(h) /\ seqNo' <= MaxCalls
    \/ \E c \in net : NetSucceeds(c)
    \/ \E c \in net : NetFails(c)
    \/ \E key \in QueryKeys : RetryRuns(key) /\ seqNo' <= MaxCalls
    \/ \E d \in ListSteps : QueryTick(d, MaxListClock)

SpecProducts == Init /\ [][NextProducts]_vars

\* ProductList browsed: the search and the page change while calls are in
\* flight, and the answers, each a page of two products out of two pages,
\* arrive in any order.
NextBrowse ==
    \/ \E term \in BrowseSearches : ProductListRender(term) /\ seqNo' <= MaxBrowseCalls
    \/ ProductListEffect /\ seqNo' <= MaxBrowseCalls
    \/ \E page \in BrowsePages : ProductListSetPage(page) /\ seqNo' <= MaxBrowseCalls
    \/ ProductListRetry /\ seqNo' <= MaxBrowseCalls
    \/ \E c \in net : GetProductsAnswers(c, ProductsResponse(2, c.args.page, 2))
    \/ \E c \in net : NetFails(c)
    \/ \E key \in QueryKeys : RetryRuns(key) /\ seqNo' <= MaxBrowseCalls
    \/ \E d \in ListSteps : QueryTick(d, MaxListClock)

SpecBrowse == Init /\ [][NextBrowse]_vars

\* ProductList and its views: every call is answered, full or empty and with
\* any number of pages, or fails.
NextViews ==
    \/ \E term \in BrowseSearches : ProductListRender(term) /\ seqNo' <= MaxBrowseCalls
    \/ ProductListEffect /\ seqNo' <= MaxBrowseCalls
    \/ \E page \in BrowsePages : ProductListSetPage(page) /\ seqNo' <= MaxBrowseCalls
    \/ ProductListRetry /\ seqNo' <= MaxBrowseCalls
    \/ \E c \in net : \E body \in ProductsResponses(c.args.page) :
         GetProductsAnswers(c, body)
    \/ \E c \in net : NetFails(c)
    \/ \E key \in QueryKeys : RetryRuns(key) /\ seqNo' <= MaxBrowseCalls

SpecViews == Init /\ [][NextViews]_vars

\* useProduct rendered by hook instances on one query client, its calls
\* answered by the proxy, whose cache ages on the same clock. A call that
\* refetch() makes for an identifier no product has (getProduct(id!) with a
\* null or zero id) is rejected.
ItemSteps == {59999, 60000}
ItemParams == {NullId} \cup Ids
NextItem ==
    \/ \E h \in Hooks, id \in ItemParams : UseProduct(h, id) /\ seqNo' <= MaxCalls
    \/ \E h \in Hooks : Refetch(h) /\ seqNo' <= MaxCalls
    \/ \E c \in net : /\ c.args.id \in Ids
                      /\ \E a \in UpstreamAnswers(c.args.id) : GetProductAnswers(c, a)
    \/ \E c \in net : c.args.id \notin Ids /\ NetFails(c)
    \/ \E key \in QueryKeys : RetryRuns(key) /\ seqNo' <= MaxCalls
    \/ \E d \in ItemSteps : WorldTick(d, MaxItemClock)

SpecItem == Init /\ [][NextItem]_vars

\* The hooks on a test query client: useProducts, whose own retry: 2 stands
\* on any client, and useProduct, which takes the client's; every call may
\* fail or succeed.
NextRetry ==
    \/ \E h \in Hooks, term \in BrowseSearches :
         UseProducts(h, 1, term) /\ seqNo' <= MaxRetryCalls
    \/ \E h \in Hooks, id \in {1}, retry \in TestClientRetries :
         UseProductOnTestClient(h, id, retry) /\ seqNo' <= MaxRetryCalls
    \/ \E h \in Hooks : Refetch(h) /\ seqNo' <= MaxRetryCalls
    \/ \E c \in net : NetSucceeds(c)
    \/ \E c \in net : NetFails(c)
    \/ \E key \in QueryKeys : RetryRuns(key) /\ seqNo' <= MaxRetryCalls

SpecRetry == Init /\ [][NextRetry]_vars

\* ------------------------------------------------------------- properties
\* A step in which request r looks the cache up and goes upstream.
BeginsUpstream(r) == req[r].pc = "idle" /\ req'[r].pc = "awaiting"
\* A step in which request r gets its upstream answer and responds.
Responds(r) == req[r].pc = "awaiting" /\ req'[r].pc = "idle"
\* The response sent in a step that answers from the cache.
AnswersFromCache == req' = req /\ resp' # resp

\* C1: while less than 60 seconds have passed since an item was stored for an
\* id, no request for that id goes upstream, and every response for that id is
\* a 200 served from the cache, with the stored snapshot and no upstream call;
\* the request that stored it made exactly one upstream call.
C1_HitWithinTtl ==
    [][\A id \in Ids :
         (lastStore[id].count > 0 /\ now - lastStore[id].at < 60) =>
           /\ \A r \in Reqs : ~(BeginsUpstream(r) /\ req'[r].id = id)
           /\ (resp' # resp /\ resp'.id = id) =>
                 /\ resp'.hit /\ resp'.calls = 0
                 /\ resp'.result.status = 200
                 /\ resp'.result.product = lastStore[id].value
                 /\ lastStore' = lastStore
           /\ (lastStore'[id] # lastStore[id]) => resp'.calls = 1]_vars

C1_Witness ==
    /\ resp.hit /\ resp.id = 1 /\ resp.at = 59
    /\ lastStore[1].at = 0 /\ lastStore[1].count = 1
    /\ resp.result.product = Product(1, 1)
    /\ upstream[1] = 2

\* C2: the expiry of an entry is set only by a store, to 60 seconds after that
\* store, and nothing else changes the cache (a hit does not extend it); once
\* more than 60 seconds have passed since the latest store for an id, no
\* request for that id is answered from the cache.
C2_AbsoluteExpiry ==
    [][/\ cache' # cache =>
            \E r \in Reqs :
              /\ Responds(r)
              /\ resp'.result.status = 200
              /\ cache' = [cache EXCEPT ![CacheKey(req[r].id)] =
                              [present |-> TRUE, value |-> resp'.result.product,
                               expiresAt |-> now + 60]]
       /\ \A id \in Ids :
            (lastStore[id].count > 0 /\ now - lastStore[id].at > 60) =>
              ~(AnswersFromCache /\ resp'.id = id)
       /\ \A id \in Ids :
            cache'[CacheKey(id)].present =>
              cache'[CacheKey(id)].expiresAt = lastStore'[id].at + 60]_vars

C2_Witness ==
    /\ lastStore[1].count = 2 /\ lastStore[1].at = 61
    /\ ~resp.hit /\ resp.id = 1 /\ resp.at = 61 /\ resp.calls = 1
    /\ cache[CacheKey(1)].expiresAt = 121
    /\ now = 120

\* C3: a request that upstream answers with 404 returns 404 with the error
\* "Product not found" and leaves the cache as it was; no entry for the id can
\* be read afterwards, so the next request for it goes upstream again.
C3_NotFoundNotCached ==
    [][\A r \in Reqs :
         (Responds(r) /\ resp'.answer.kind = "response" /\ resp'.answer.status = 404) =>
           /\ resp'.id = req[r].id
           /\ resp'.result.status = 404
           /\ resp'.result.error = "Product not found"
           /\ cache' = cache
           /\ ~TryGetValue(cache', CacheKey(req[r].id), now')]_vars

C3_Witness ==
    /\ resp.result.status = 404 /\ resp.id = 1 /\ resp.at = 61
    /\ cache[CacheKey(1)].present /\ cache[CacheKey(1)].expiresAt = 60
    /\ req[1].pc = "idle"

\* C4: a request whose upstream call fails in any way but a 404 (an exception,
\* another non-success status, an unparsable body) returns 500 with the one
\* fixed error body and leaves the cache as it was.
C4_OtherFailure ==
    [][\A r \in Reqs :
         (/\ Responds(r)
          /\ \/ resp'.answer.kind = "exception"
             \/ resp'.answer.status \notin ((200..299) \cup {404})
             \/ resp'.answer.body = "garbage") =>
           /\ resp'.id = req[r].id
           /\ resp'.result = [status |-> 500, product |-> Null,
                              error |-> "Failed to fetch product details"]
           /\ cache' = cache]_vars

C4_Witness ==
    /\ resp.result.status = 500 /\ resp.answer.body = "garbage" /\ resp.id = 1
    /\ resp.at = 61
    /\ cache[CacheKey(1)].present /\ cache[CacheKey(1)].expiresAt = 60

\* C5: every request that misses makes exactly one upstream call of its own,
\* also while another request for the same id is in flight; each returns the
\* item it fetched; each store replaces the entry, so once no request is in
\* flight the entry of the id holds the value written last.
C5_ConcurrentMisses ==
    [][/\ \A r \in Reqs : BeginsUpstream(r) => req'[r].calls = 1
       /\ \A r \in Reqs :
            Responds(r) =>
              /\ resp'.calls = 1
              /\ (resp'.answer.status = 200 /\ resp'.answer.body = "json") =>
                    /\ resp'.result = Ok(resp'.answer.product)
                    /\ cache'[CacheKey(req[r].id)].value = resp'.answer.product
                    /\ lastStore'[req[r].id].count = lastStore[req[r].id].count + 1
       /\ (\A r \in Reqs : req'[r].pc = "idle") =>
            \A id \in Ids :
              lastStore'[id].count > 0 =>
                /\ cache'[CacheKey(id)].present
                /\ cache'[CacheKey(id)].value = lastStore'[id].value]_vars

C5_Witness ==
    /\ \A r \in Reqs : req[r].pc = "idle"
    /\ now = 0
    /\ lastStore[1].count = 2 /\ lastStore[1].at = 0
    /\ lastStore[1].value = Product(1, 2)
    /\ cache[CacheKey(1)].value = Product(1, 2)
    /\ resp.result = Ok(Product(1, 2)) /\ ~resp.hit

\* C6: the upstream call of a list request goes to the search endpoint with
\* q = the term, limit = 12 and the computed skip when the term is non-empty,
\* and to the listing endpoint with limit = 12 and that skip (and no q) when it
\* is null or empty; it is one call.
C6_EndpointBySearchTerm ==
    lreq.pc # "idle" =>
      LET seen == UpstreamSees(lreq.url)
      IN /\ lreq.calls = 1
         /\ seen.limit = [ok |-> TRUE, value |-> 12]
         /\ seen.skip = [ok |-> TRUE, value |-> lreq.skip]
         /\ IF ~lreq.search.null /\ lreq.search.chars # <<>>
              THEN /\ seen.endpoint = "/products/search"
                   /\ seen.q = [given |-> TRUE, value |-> lreq.search.chars]
              ELSE /\ seen.endpoint = "/products"
                   /\ ~seen.q.given

\* C7: for every page the skip that reaches upstream is (page - 1) * 12,
\* negative for page <= 0, and the page is not rejected; with no page given the
\* page is 1 and the skip 0.  (Stated for the terms that reach upstream whole,
\* so that it does not fail for C6's reason.)
C7_SkipForwarded ==
    (/\ lreq.pc # "idle"
     /\ IndexOf(lreq.search.chars, "&") = 0
     /\ IndexOf(lreq.search.chars, "#") = 0) =>
      LET seen == UpstreamSees(lreq.url)
      IN /\ seen.skip.ok
         /\ seen.skip.value % 12 = 0
         /\ seen.skip.value \div 12 + 1 = lreq.page
         /\ lreq.page <= 0 => seen.skip.value < 0
         /\ ~lreq.pageGiven => (lreq.page = 1 /\ seen.skip.value = 0)
         /\ (lreq.pc = "done" /\ lreq.answer.status = 200 /\ lreq.answer.body = "json")
              => lreq.result.status = 200

\* C8: in every 200 response of the list endpoint totalPages is the ceiling of
\* upstream's total (0 when the body has none) over 12: the least n with
\* 12 * n >= total; 100 gives 9, 25 gives 3, 0 gives 0, whatever skip and limit
\* upstream reports and whatever the page.
C8_TotalPagesIsCeiling ==
    (lreq.pc = "done" /\ lreq.result.status = 200) =>
      LET total == IF lreq.answer.body = "json" /\ lreq.answer.hasTotal
                     THEN lreq.answer.total ELSE 0
          n == lreq.result.totalPages
      IN /\ 12 * n >= total
         /\ 12 * (n - 1) < total
         /\ total = 100 => n = 9
         /\ total = 25 => n = 3
         /\ total = 0 => n = 0

C8_Witness ==
    /\ lreq.pc = "done" /\ lreq.result.status = 200
    /\ lreq.answer.total = 25 /\ lreq.answer.limit = 10
    /\ lreq.page = 3
    /\ lreq.result.totalPages = 3

\* C9: a list request makes one upstream call and no more, and when that call
\* fails (an exception, a non-success status, an unparsable body) the response
\* is 500 with the fixed error and no product data.
C9_ListFailure ==
    /\ lreq.pc # "idle" => lreq.calls = 1
    /\ (/\ lreq.pc = "done"
        /\ \/ lreq.answer.kind = "exception"
           \/ lreq.answer.status \notin 200..299
           \/ lreq.answer.body = "garbage") =>
         lreq.result = [status |-> 500, fields |-> {"error"},
                        hasProducts |-> FALSE, products |-> <<>>,
                        total |-> 0, page |-> 0, totalPages |-> 0,
                        error |-> "Failed to fetch products"]

C9_Witness ==
    /\ lreq.pc = "done" /\ lreq.answer.kind = "response" /\ lreq.answer.status = 404
    /\ lreq.result.status = 500 /\ lreq.result.error = "Failed to fetch products"
    /\ lreq.calls = 1

\* C10: every step of a list request leaves the product cache as it was, and
\* every list request goes upstream with one call, also when it repeats the
\* search term and page of the request before it.
C10_ListNotCached ==
    [][lreq' # lreq =>
         /\ cache' = cache /\ lastStore' = lastStore
         /\ lreq.pc \in {"idle", "done"} => (lreq'.pc = "awaiting" /\ lreq'.calls = 1)
         /\ lreq.pc = "awaiting" => (lreq'.pc = "done" /\ lreq'.calls = 1)]_vars

C10_Witness ==
    /\ lreq.pc = "done" /\ lreq.repeat /\ lreq.calls = 1
    /\ lreq.result.status = 200
    /\ lreq.search = Str(<<"p", "h", "o", "n", "e">>) /\ lreq.page = 1
    /\ cache[CacheKey(1)].present

\* C11 as stated: on upstream success the list endpoint answers 200 with a body
\* of exactly the four fields items, total, page and totalPages; the item
\* sequence is upstream's in upstream's order, total is upstream's total and
\* page is the requested page unchanged, also for page <= 0.
C11_BodyWithItems ==
    (lreq.pc = "done" /\ lreq.answer.kind = "response" /\ lreq.answer.status = 200
       /\ lreq.answer.body = "json" /\ lreq.answer.hasTotal) =>
      /\ lreq.result.status = 200
      /\ lreq.result.fields = {"items", "total", "page", "totalPages"}
      /\ lreq.result.products =
           [i \in 1..Len(lreq.answer.products) |-> ListView(lreq.answer.products[i])]
      /\ lreq.result.total = lreq.answer.total
      /\ lreq.result.page = (IF lreq.pageGiven THEN lreq.page ELSE 1)

\* C11 amended: the same with the sequence under the name products: the body
\* has exactly the four fields products, total, page and totalPages; products
\* holds upstream's products in upstream's order, each as its list view; total
\* is upstream's total; page is the requested page unchanged (1 when none is
\* given), also for page <= 0.
C11_BodyWithProducts ==
    (lreq.pc = "done" /\ lreq.answer.kind = "response" /\ lreq.answer.status = 200
       /\ lreq.answer.body = "json" /\ lreq.answer.hasTotal) =>
      /\ lreq.result.status = 200
      /\ lreq.result.fields = {"products", "total", "page", "totalPages"}
      /\ lreq.result.hasProducts
      /\ Len(lreq.result.products) = Len(lreq.answer.products)
      /\ \A i \in 1..Len(lreq.answer.products) :
           /\ lreq.result.products[i].id = lreq.answer.products[i].id
           /\ lreq.result.products[i].view = "list"
      /\ lreq.result.total = lreq.answer.total
      /\ lreq.result.page = (IF lreq.pageGiven THEN lreq.page ELSE 1)
      /\ lreq.result.error = ""

C11_Witness ==
    /\ lreq.pc = "done" /\ lreq.result.status = 200
    /\ lreq.pageGiven /\ lreq.page = 0 /\ lreq.result.page = 0
    /\ lreq.answer.products = <<Product(2, 1), Product(1, 1)>>
    /\ Len(lreq.result.products) = 2 /\ lreq.result.products[1].id = 2
    /\ lreq.answer.total = 25 /\ lreq.result.total = 25

\* C12: the text ProductList queries with (the debounced search text, delay
\* 500 ms) is committed once per burst of typing: it changes only by taking the
\* search text as last typed, 500 ms after the last change; while changes
\* follow each other by less than 500 ms nothing is committed in between; and
\* once the 500 ms have passed the timeout has run exactly once and the text is
\* the last one typed.
C12_CommittedOnce ==
    /\ [](typing.fired <= 1)
    /\ []((typing.keys > 0 /\ clock > typing.changedAt + 500) =>
            (typing.fired = 1 /\ ListSearch = searchText))
    /\ [][(ListSearch' # ListSearch =>
               (/\ searchText' = searchText /\ ListSearch' = searchText
                /\ clock = typing.changedAt + 500
                /\ typing.fired = 0 /\ typing'.fired = 1))
           /\ ((searchText' # searchText /\ typing.keys > 0
                  /\ clock < typing.changedAt + 500) =>
                (typing.fired = 0 /\ ListSearch' = ListSearch))]_vars

\* "a", "ab", "abc" typed at 0, 100 and 200 ms, committed at 700 ms.
C12_Witness ==
    /\ typing.keys = 3 /\ typing.changedAt = 200 /\ clock = 700
    /\ searchText = "abc" /\ ListSearch = "abc"
    /\ typing.before = InitialSearch /\ typing.fired = 1

\* C13: useDebounce returns the initial input at mount; after a change of the
\* input the delayed value is still the one it was before the change at every
\* instant less than the delay (500 ms) after the most recent change, so a
\* change inside the window restarts the wait; and the delayed value only
\* changes to the input's current value when the input has gone unchanged for
\* the whole delay.
C13_QuietPeriod ==
    /\ [](typing.keys = 0 => debounce.value = InitialSearch)
    /\ []((typing.keys > 0 /\ clock < typing.changedAt + 500) =>
            debounce.value = typing.before)
    /\ [][debounce'.value # debounce.value =>
               (/\ debounce'.value = searchText /\ searchText' = searchText
                /\ clock - typing.changedAt >= 500)]_vars

\* A second change 400 ms after the first: 800 ms in, the delayed value is
\* still the initial one.
C13_Witness ==
    /\ typing.keys = 2 /\ typing.changedAt = 400 /\ clock = 800
    /\ searchText = "ab" /\ debounce.value = InitialSearch
    /\ debounce.armed /\ debounce.due = 900

\* C14: a render of usePagination whose reset dependency or initialPage differs
\* from the render before leaves the page at the (new) initialPage, whatever
\* the page was; a render with both unchanged leaves the page as it was.
C14_ResetOnDependency ==
    [][/\ (pag'.dep # pag.dep \/ pag'.initialPage # pag.initialPage) =>
            (pag'.last = "render" /\ pag'.page = pag'.initialPage)
       /\ (pag'.last = "render" /\ pag'.dep = pag.dep
             /\ pag'.initialPage = pag.initialPage) => pag'.page = pag.page]_vars

\* From page 5 with dependency "a" and initialPage 1, a render with initialPage
\* 3 and the same dependency: the page is 3, after one render that still
\* returned 5.
C14_Witness ==
    /\ pag.last = "render" /\ pag.dep = "a" /\ pag.initialPage = 3
    /\ pag.page = 3 /\ pag.rendered = <<5, 3>>

\* A step in which hook instance h renders its query hook.
Renders(h) == lastq' # lastq /\ lastq'.kind = "render" /\ lastq'.h = h
\* The calls a step issues.
Issued == net' \ net

\* C15: on one query client, a render of useProducts with a (page, search) for
\* which the cache holds data fetched less than 5 minutes (300000 ms) ago
\* issues no network call and has that data at once, not loading; so does not
\* call either a render while the call for the same (page, search) is still in
\* flight; a render with a (page, search) that no call has been made for yet
\* issues exactly one getProducts call, with exactly that page and search.
C15_ListQueryCache ==
    [][\A h \in Hooks : Renders(h) =>
         LET a == obs'[h].args
             fresh == \E k \in QueryKeys :
                        /\ queries[k].hasData /\ queries[k].data.for = a
                        /\ clock < queries[k].updatedAt + 300000
             flying == \E c \in net : c.args = a /\ Live(queries, c)
             known == \E k \in QueryKeys : queries[k].calls > 0 /\ queries[k].args = a
         IN /\ fresh => /\ Issued = {} /\ seqNo' = seqNo
                         /\ HookResult(h)'.hasData /\ HookResult(h)'.data.for = a
                         /\ ~HookResult(h)'.isLoading
            /\ flying => (Issued = {} /\ seqNo' = seqNo)
            /\ ~known => /\ seqNo' = seqNo + 1
                          /\ Cardinality(Issued) = 1
                          /\ \A c \in Issued : c.key = obs'[h].key /\ c.args = a
                          /\ a = ProductsArgs(obs'[h].key.page, obs'[h].key.search)]_vars

\* A second hook instance renders page 1 of "" 299999 ms after the first one's
\* fetch succeeded: one call in all, and the data is there.
C15_Witness ==
    /\ lastq.kind = "render" /\ lastq.h = 2 /\ lastq.issued = 0
    /\ obs[1].mounted /\ obs[1].key = ProductsQueryKey(1, "")
    /\ obs[2].mounted /\ obs[2].key = ProductsQueryKey(1, "")
    /\ clock = 299999 /\ seqNo = 1 /\ net = {}
    /\ queries[ProductsQueryKey(1, "")].updatedAt = 0
    /\ HookResult(2).hasData /\ ~HookResult(2).isLoading

\* C16: on one query client, a render of useProduct with a product's id for
\* which the cache holds data fetched less than 1 minute (60000 ms) ago issues
\* no getProduct call and has that data at once, whether or not the proxy still
\* caches the product; a render with an id that no call has been made for yet
\* issues exactly one call, for exactly that id; and no render reads or writes
\* the proxy's cache.
C16_ItemQueryCache ==
    [][\A h \in Hooks : Renders(h) =>
         LET id == obs'[h].key.id
             q == queries[ProductQueryKey(id)]
             fresh == q.hasData /\ clock < q.updatedAt + 60000
         IN (obs'[h].key.kind = "product" /\ id \in Ids) =>
              (/\ obs'[h].key = ProductQueryKey(id)
               /\ fresh => (/\ Issued = {} /\ seqNo' = seqNo
                            /\ HookResult(h)'.hasData
                            /\ HookResult(h)'.data = q.data
                            /\ HookResult(h)'.data.for = ProductArgs(id)
                            /\ ~HookResult(h)'.isLoading)
               /\ q.calls = 0 => (/\ seqNo' = seqNo + 1
                                  /\ Cardinality(Issued) = 1
                                  /\ \A c \in Issued : c.key = ProductQueryKey(id)
                                                        /\ c.args = ProductArgs(id))
               /\ cache' = cache /\ lastStore' = lastStore /\ now' = now)]_vars

\* A second hook instance renders product 1 at 119998 ms, 59999 ms after the
\* first one's refetch succeeded from the proxy's cache: the proxy's entry,
\* stored at second 0, has expired, and the render issues no call and has the
\* data.
C16_Witness ==
    /\ lastq.kind = "render" /\ lastq.h = 2 /\ lastq.issued = 0
    /\ obs[1].mounted /\ obs[1].key = ProductQueryKey(1)
    /\ obs[2].mounted /\ obs[2].key = ProductQueryKey(1)
    /\ clock = 119998 /\ queries[ProductQueryKey(1)].updatedAt = 59999
    /\ ~TryGetValue(cache, CacheKey(1), now)
    /\ HookResult(2).hasData /\ ~HookResult(2).isLoading
    /\ HookResult(2).data.body = Product(1, 1)

\* C17: a render of useProduct with a null id issues no network call, and as
\* long as nobody has forced a fetch of the null key its result is pending: not
\* loading, no data, no error. A render issues a getProduct call only with a
\* product's id, and the call carries exactly that id; a hook that goes from
\* the null id to an id nothing was fetched for issues exactly one such call.
C17_NullIdIsIdle ==
    /\ [](\A h \in Hooks :
            (/\ obs[h].mounted /\ obs[h].key = ProductQueryKey(NullId)
             /\ queries[ProductQueryKey(NullId)].calls = 0) =>
               (/\ HookResult(h).isPending /\ ~HookResult(h).isLoading
                /\ ~HookResult(h).isFetching /\ ~HookResult(h).hasData
                /\ ~HookResult(h).isError /\ ~HookResult(h).isSuccess))
    /\ [][\A h \in Hooks : Renders(h) =>
            (/\ (obs'[h].key = ProductQueryKey(NullId)) =>
                   (Issued = {} /\ seqNo' = seqNo)
             /\ \A c \in Issued : (/\ c.key = obs'[h].key /\ c.key.id \in Ids
                                    /\ c.args = ProductArgs(c.key.id))
             /\ (/\ obs[h].mounted /\ obs[h].key = ProductQueryKey(NullId)
                 /\ obs'[h].key.id \in Ids
                 /\ queries[obs'[h].key].calls = 0) =>
                   (/\ Issued = {Call(1, ProductQueryKey(obs'[h].key.id),
                                      ProductArgs(obs'[h].key.id))}
                    /\ HookResult(h)'.isLoading))]_vars

\* Two hook instances were rendered with the null id; at 59999 ms the first
\* one is given id 1 and issues the first call of all, for id 1, while the
\* second one is still pending and idle.
C17_Witness ==
    /\ lastq.kind = "render" /\ lastq.h = 1 /\ lastq.issued = 1
    /\ obs[1].mounted /\ obs[1].key = ProductQueryKey(1)
    /\ obs[2].mounted /\ obs[2].key = ProductQueryKey(NullId)
    /\ clock = 59999 /\ seqNo = 1
    /\ net = {Call(1, ProductQueryKey(1), ProductArgs(1))}
    /\ HookResult(1).isLoading
    /\ HookResult(2).isPending /\ ~HookResult(2).isLoading /\ ~HookResult(2).hasData

\* A step in which hook instance h calls refetch().
Refetches(h) == lastq' # lastq /\ lastq'.kind = "refetch" /\ lastq'.h = h

\* C18: refetch() on a query that holds data, however fresh, or that is idle,
\* issues exactly one network call, with the key and the arguments of the
\* hook's query; when the answer to it arrives it replaces the data of the
\* entry of that key and restarts its freshness window, leaving every other
\* entry alone; and a later render with the same parameters inside the new
\* window issues no call and has the data of the refetch.
C18_RefetchBypassesFreshness ==
    /\ [][\A h \in Hooks : Refetches(h) =>
            LET key == obs[h].key
                q == queries[key]
            IN (q.hasData \/ ~q.fetching) =>
                 (/\ seqNo' = seqNo + 1
                  /\ Issued = {Call(q.calls + 1, key, obs[h].args)}
                  /\ queries'[key].current = q.calls + 1
                  /\ queries'[key].data = q.data
                  /\ \A k \in QueryKeys \ {key} : queries'[k] = queries[k])]_vars
    /\ [][\A c \in net :
            (c \notin net' /\ Live(queries, c) /\ lastq'.kind = "response") =>
               (/\ queries'[c.key].data.gen = c.gen
                /\ queries'[c.key].data.for = c.args
                /\ queries'[c.key].updatedAt = clock
                /\ \A k \in QueryKeys \ {c.key} : queries'[k] = queries[k])]_vars
    /\ [][\A h \in Hooks : Renders(h) =>
            LET q == queries[obs'[h].key]
            IN (q.hasData /\ q.data.gen > 1 /\ clock < q.updatedAt + 300000) =>
                 (/\ Issued = {} /\ seqNo' = seqNo
                  /\ HookResult(h)'.data = q.data)]_vars

\* Page 1 of "" was fetched at 0 and refetched, while fresh, at 299999 ms; a
\* second hook instance rendering the same parameters then has the data of
\* the refetch and issues no third call.
C18_Witness ==
    /\ lastq.kind = "render" /\ lastq.h = 2 /\ lastq.issued = 0
    /\ obs[2].mounted /\ obs[2].key = ProductsQueryKey(1, "")
    /\ clock = 299999 /\ seqNo = 2 /\ net = {}
    /\ queries[ProductsQueryKey(1, "")].updatedAt = 299999
    /\ queries[ProductsQueryKey(1, "")].failureCount = 0
    /\ HookResult(2).hasData /\ HookResult(2).data.gen = 2

\* C19: in ProductList the query observed is always the one of the current
\* page and search, and the data it shows, with the page number it hands to
\* the pagination control, is the answer to a call made with exactly that page
\* and search. A change of the page or of the search cancels no call in
\* flight; the answer to a call for other parameters than the current ones is
\* stored under its own key and leaves what is shown as it is.
C19_StaleResponseNotShown ==
    /\ [](obs[1].mounted =>
            (/\ obs[1].key = ProductsQueryKey(pag.page, ProductListSearch)
             /\ HookResult(1).hasData =>
                   (/\ HookResult(1).data.for = ProductsArgs(pag.page, ProductListSearch)
                    /\ HookResult(1).data.for.page = pag.page)))
    /\ [][(obs[1].mounted /\ obs'[1].key # obs[1].key) => net \subseteq net']_vars
    /\ [][\A c \in net :
            (c \notin net' /\ lastq'.kind = "response" /\ c.key # obs[1].key) =>
               (/\ HookResult(1)' = HookResult(1)
                /\ ProductListView' = ProductListView
                /\ Live(queries, c) => (/\ queries'[c.key].hasData
                                         /\ queries'[c.key].data.for = c.args))]_vars

\* The search changed from "" to "a" while the call for page 1 of "" was in
\* flight; its answer has now arrived and is kept under its own key, the call
\* for page 1 of "a" is still in flight, and the list shows the spinner.
C19_Witness ==
    /\ lastq.kind = "response" /\ seqNo = 2
    /\ obs[1].mounted /\ obs[1].key = ProductsQueryKey(1, "a")
    /\ net = {Call(1, ProductsQueryKey(1, "a"), ProductsArgs(1, "a"))}
    /\ queries[ProductsQueryKey(1, "")].hasData
    /\ queries[ProductsQueryKey(1, "")].data.for = ProductsArgs(1, "")
    /\ ~HookResult(1).hasData /\ ProductListView = "loading"

\* C20: in ProductPage the scroll lock is on in exactly the states where a
\* product is selected, whatever identifier the product has: on while
\* selectedProductId is a product's id, off while it is none.
C20_LockedExactlyWhileSelected ==
    scroll.locked <=> selectedProductId # NullId

\* What the code keeps: the lock is on exactly while the selected id is a
\* truthy number, which is also when the detail is rendered.
C20_LockedWhileTruthy ==
    /\ scroll.locked <=> Truthy(selectedProductId)
    /\ scroll.locked <=> DetailRendered

\* The product with id 0 has been clicked: it is the selection, and the lock
\* is off and no detail is shown.
C20_Witness ==
    /\ selectedProductId = 0
    /\ ~scroll.locked /\ ~DetailRendered

\* C21: in useScrollLock, whatever came before, an activation at a non-zero
\* scroll offset y records y and sets the body to class drawer-open, position
\* fixed, top -y px and width 100%, calling scrollTo not at all; while the lock
\* is on the recorded offset is the one of the top style; a deactivation with a
\* non-zero offset recorded removes the four settings and calls scrollTo
\* exactly once, with the offset the latest activation recorded.
C21_LockCycles ==
    /\ [][(scroll'.last \in {"lock", "mount"} /\ scroll' # scroll
             /\ scroll'.isLocked /\ scroll.y # 0) =>
            (/\ scroll'.saved = scroll.y
             /\ scroll'.locked /\ scroll'.position = "fixed"
             /\ scroll'.top = scroll.y /\ scroll'.width = "100%"
             /\ scroll'.calls = 0)]_vars
    /\ [](scroll.isLocked => (scroll.locked /\ scroll.top = scroll.saved))
    /\ [][(scroll'.last = "unlock" /\ scroll' # scroll /\ scroll.saved # 0) =>
            (/\ scroll.isLocked /\ ~scroll'.isLocked
             /\ ~scroll'.locked /\ scroll'.position = ""
             /\ scroll'.top = NoTop /\ scroll'.width = ""
             /\ scroll'.calls = 1 /\ scroll'.to = scroll.saved
             /\ scroll'.to = scroll.top)]_vars

\* The lock taken at offset 150 has been released: the settings are gone and
\* the one scrollTo call went to 150.
C21_Witness ==
    /\ scroll.mounted /\ scroll.last = "unlock" /\ ~scroll.isLocked
    /\ scroll.saved = 150 /\ scroll.calls = 1 /\ scroll.to = 150
    /\ ~scroll.locked /\ scroll.position = "" /\ scroll.top = NoTop
    /\ scroll.width = ""

\* C22: a deactivation of useScrollLock after an activation at scroll offset 0
\* removes the class and the three styles and calls scrollTo not at all, and
\* so does a mount of the hook with isLocked false.
C22_NoRestoreAtZero ==
    /\ [][(scroll'.last = "unlock" /\ scroll' # scroll /\ scroll.saved = 0) =>
            (/\ ~scroll'.locked /\ scroll'.position = ""
             /\ scroll'.top = NoTop /\ scroll'.width = ""
             /\ scroll'.calls = 0 /\ scroll'.y = scroll.y)]_vars
    /\ [][(scroll'.last = "mount" /\ scroll' # scroll /\ ~scroll'.isLocked) =>
            (/\ ~scroll'.locked /\ scroll'.position = ""
             /\ scroll'.top = NoTop /\ scroll'.width = ""
             /\ scroll'.calls = 0 /\ scroll'.y = scroll.y)]_vars
    /\ [](scroll.last = "mount" /\ ~scroll.isLocked => scroll.calls = 0)

\* The lock taken at offset 0 has been released without a scrollTo call.
C22_Witness ==
    /\ scroll.mounted /\ scroll.last = "unlock" /\ ~scroll.isLocked
    /\ scroll.saved = 0 /\ scroll.calls = 0 /\ scroll.y = 0
    /\ ~scroll.locked /\ scroll.position = ""

\* C27: in useDrawer isDrawerOpen is false at mount and turns true only in the
\* step of an animation frame that was asked for while isOpen was true and is
\* still pending; a frame is asked for only by a mount with isOpen true or a
\* render that changes isOpen to true, never while isOpen is false or at a
\* render with the same isOpen, and none is pending after an unmount or a
\* change of isOpen to false; every handleClose leaves isDrawerOpen false and
\* calls the onClose of the latest render exactly once if there is one, none
\* otherwise, whether the drawer was open or not.
C27_DrawerOpensOnFrame ==
    /\ [](drawer.last = "mount" => ~drawer.isDrawerOpen)
    /\ [](drawer.frame => (drawer.mounted /\ drawer.isOpen))
    /\ [][(drawer'.isDrawerOpen /\ ~drawer.isDrawerOpen) =>
            (/\ drawer'.last = "frame" /\ drawer.frame /\ ~drawer'.frame
             /\ drawer.mounted /\ drawer.isOpen)]_vars
    /\ [][(drawer' # drawer) =>
            (/\ drawer'.requests = 1 <=>
                   (/\ drawer'.last \in {"mount", "render"} /\ drawer'.isOpen
                    /\ (drawer'.last = "mount" \/ ~drawer.isOpen))
             /\ drawer'.requests \in {0, 1}
             /\ drawer'.requests = 1 => drawer'.frame
             /\ (drawer'.last = "render" /\ drawer'.isOpen = drawer.isOpen) =>
                   (drawer'.frame = drawer.frame
                      /\ drawer'.isDrawerOpen = drawer.isDrawerOpen))]_vars
    /\ [][(drawer' # drawer /\ drawer'.last = "close") =>
            (/\ ~drawer'.isDrawerOpen
             /\ drawer'.called = (IF drawer.onClose # NoCallback THEN 1 ELSE 0)
             /\ drawer'.calledWith = drawer.onClose
             /\ drawer'.transitionDuration = 300)]_vars

\* handleClose was called on a drawer that was closed already, after a render
\* that replaced the callback: the one called, once, is the later one.
C27_Witness ==
    /\ drawer.mounted /\ drawer.last = "close" /\ ~drawer.isDrawerOpen
    /\ drawer.isOpen /\ drawer.frame
    /\ drawer.onClose = 2 /\ drawer.called = 1 /\ drawer.calledWith = 2

\* A step in which ProductDetail's handleClose runs.
Closes == drawer' # drawer /\ drawer'.last = "close"

\* C23: closing the detail sets the drawer's isDrawerOpen to false in the same
\* step and leaves the selection, and with it the detail in the tree, as they
\* are; its timeout is due after transitionDuration, which is DRAWER_TRANSITION,
\* 300 ms; as long as the timeout of a close is pending the selection is not
\* none, and the selection becomes none only when a timeout fires, at its due
\* time.
C23_SelectionKeptForTransition ==
    /\ [][Closes =>
            (/\ ~drawer'.isDrawerOpen
             /\ selectedProductId' = selectedProductId /\ DetailRendered'
             /\ drawer.transitionDuration = DRAWER_TRANSITION
             /\ CloseTimer(clock + 300, selectedProductId) \in closeTimers')]_vars
    /\ [][(selectedProductId # NullId /\ selectedProductId' = NullId) =>
            (\E t \in closeTimers : t \notin closeTimers' /\ t.due = clock)]_vars
    /\ [](\A t \in closeTimers : clock < t.due => selectedProductId # NullId)

\* C28: a close timeout that fires clears only the selection it was started
\* on: when it fires, what is selected is that selection or nothing.
C28_TimerClearsOwnSelection ==
    [][\A t \in closeTimers :
         (t \notin closeTimers' /\ t.due = clock) =>
            selectedProductId \in {t.sel, NullId}]_vars

\* The call answered in a step: the one its query was waiting for.
Answered(c) == c \in net /\ c \notin net' /\ Live(queries, c)

\* C24: in one fetch the query function of a list query runs at most 3 times,
\* the call and 2 retries, and the failure of the third run puts the query in
\* error; a run that succeeds, the first or a retry, puts the query in success
\* with the data of that run; a query of useProduct on the test client with
\* its default, no retry, is in error at the failure of its first run, and no
\* query runs more often than its retry count plus one.
C24_BoundedRetries ==
    /\ [](\A key \in QueryKeys :
            /\ queries[key].attempts <= queries[key].retry + 1
            /\ key.kind = "products" => queries[key].attempts <= 3)
    /\ [][\A c \in net :
            (Answered(c) /\ lastq'.kind = "failure") =>
               LET q == queries[c.key]
                   r == queries'[c.key]
               IN /\ (c.key.kind = "products" /\ q.attempts = 3) =>
                        (r.status = "error" /\ ~r.fetching /\ r.attempts = 3)
                  /\ (c.key.kind = "products" /\ q.attempts < 3
                         /\ ~q.retryCancelled) =>
                        (r.fetching /\ r.waiting /\ r.status = q.status)
                  /\ (c.key.kind = "product" /\ q.retry = 0) =>
                        (r.status = "error" /\ ~r.fetching /\ q.attempts = 1)]_vars
    /\ [][\A c \in net :
            (Answered(c) /\ lastq'.kind = "response") =>
               LET r == queries'[c.key]
               IN /\ r.status = "success" /\ ~r.fetching /\ r.hasData
                  /\ r.data.gen = c.gen /\ r.data.for = c.args]_vars

\* A list query is in error after its third run, and a query of useProduct on
\* the default test client is in error after its first.
C24_Witness ==
    /\ \E key \in QueryKeys :
         /\ key.kind = "products" /\ queries[key].status = "error"
         /\ queries[key].attempts = 3 /\ queries[key].calls = 3
    /\ \E key \in QueryKeys :
         /\ key.kind = "product" /\ queries[key].status = "error"
         /\ queries[key].retry = 0 /\ queries[key].attempts = 1

\* A retry of a list query succeeded: the data is that of the second run.
C24_WitnessRetried ==
    \E key \in QueryKeys :
       /\ key.kind = "products" /\ queries[key].status = "success"
       /\ queries[key].attempts = 2 /\ queries[key].data.gen = 2

\* C24 as stated for every query: on the test client with its default, no
\* retry, the failure of a query's call puts the query in error after one run.
C24_OneCallOnTestClient ==
    [][\A c \in net :
         (/\ Answered(c) /\ lastq'.kind = "failure"
          /\ \A h \in Hooks :
               (obs[h].mounted /\ obs[h].key.kind = "product") =>
                  obs[h].opts.retry = 0) =>
            (/\ queries'[c.key].status = "error"
             /\ queries[c.key].attempts = 1)]_vars

\* C25: goToPreviousPage sets the page to page - 1 if that is at least
\* initialPage and to initialPage otherwise, so from a page that is at least
\* initialPage the page stays at least initialPage, whatever initialPage is;
\* goToNextPage sets the page to page + 1, also from a page below initialPage;
\* setPage sets the page it is given, whatever initialPage is.
C25_LowerBoundOnly ==
    /\ [][(pag' # pag /\ pag'.last = "previous") =>
            (/\ pag'.page = (IF pag.page - 1 >= pag.initialPage
                               THEN pag.page - 1 ELSE pag.initialPage)
             /\ pag.page >= pag.initialPage => pag'.page >= pag.initialPage
             /\ pag'.initialPage = pag.initialPage)]_vars
    /\ [][(pag' # pag /\ pag'.last = "next") => pag'.page = pag.page + 1]_vars
    /\ [][\A page \in SetPages :
            ENABLED SetPage(page) /\ (SetPage(page) => pag'.page = page)]_vars

\* goToPreviousPage has left the page at a negative initialPage.
C25_Witness ==
    pag.last = "previous" /\ pag.initialPage = -1 /\ pag.page = -1

\* setPage has set a page below initialPage, and goToNextPage one far above.
C25_WitnessUnclamped ==
    \/ pag.last = "setPage" /\ pag.initialPage = 3 /\ pag.page = -2
    \/ pag.last = "next" /\ pag.initialPage = -1 /\ pag.page = MaxPage

\* C26: ProductList shows the loading view exactly while the query of the
\* current page and search has no data and its fetch is in flight; else the
\* error view exactly when the query is in error, and the retry of the error
\* view is available then and starts a fetch of that query; else the empty
\* state exactly when there is no data or the response lists no product; else
\* the grid. A successful answer without products to the query shown leaves
\* the empty state on the screen.
C26_OneOfFourViews ==
    /\ [](obs[1].mounted =>
            LET q == queries[obs[1].key]
                loading == ~q.hasData /\ q.fetching
                failed == q.status = "error"
                none == ~q.hasData \/ q.data.body.products = 0
            IN /\ ProductListView = "loading" <=> loading
               /\ ProductListView = "error" <=> (~loading /\ failed)
               /\ ProductListView = "empty" <=> (~loading /\ ~failed /\ none)
               /\ ProductListView = "grid" <=> (~loading /\ ~failed /\ ~none)
               /\ (ProductListView = "error" /\ ~EffectPending) =>
                     ENABLED ProductListRetry)
    /\ [][(lastq' # lastq /\ lastq'.kind = "refetch") =>
            (/\ ProductListView = "error"
             /\ \E c \in Issued : c.key = obs[1].key /\ Live(queries', c)
             /\ seqNo' = seqNo + 1
             /\ ~HookResult(1).hasData => ProductListView' = "loading")]_vars
    /\ [][\A c \in net :
            (/\ Answered(c) /\ lastq'.kind = "response" /\ c.key = obs[1].key
             /\ queries'[c.key].data.body.products = 0) =>
               ProductListView' = "empty"]_vars

\* After a failure and a retry from the error view the answer lists no
\* product: the empty state is shown.
C26_Witness ==
    /\ obs[1].mounted /\ lastq.kind = "response" /\ ProductListView = "empty"
    /\ HookResult(1).hasData /\ HookResult(1).data.body.products = 0
    /\ HookResult(1).isSuccess /\ queries[obs[1].key].calls = 4

\* C29: the page of ProductList and of every list call is at least 1; every
\* call a step issues is for the page before or after the step; the page
\* rises only by a click on Next in the grid, to the page after the one shown,
\* which is at most the totalPages of the response shown at the click; and
\* in the grid Previous is available exactly at a page above 1, Next exactly
\* at a page below totalPages.
C29_PageWithinRange ==
    /\ [](/\ pag.page >= 1
          /\ \A c \in net : c.key.kind = "products" => c.args.page >= 1)
    /\ [][\A c \in Issued : c.args.page \in {pag.page, pag'.page}]_vars
    /\ [][pag'.page > pag.page =>
            (/\ pag'.last = "setPage" /\ ProductListView = "grid"
             /\ HookResult(1).data.body.page = pag.page
             /\ pag'.page = pag.page + 1
             /\ pag'.page <= HookResult(1).data.body.totalPages)]_vars
    /\ []((obs[1].mounted /\ ~EffectPending /\ ProductListView = "grid") =>
            LET shown == HookResult(1).data.body
            IN /\ ENABLED ProductListSetPage(shown.page - 1) <=> shown.page > 1
               /\ ENABLED ProductListSetPage(shown.page + 1) <=>
                     shown.page < shown.totalPages)

\* Page 2, reached by Next, is shown with a response that says there is one
\* page: Next is not available, Previous is.
C29_Witness ==
    /\ obs[1].mounted /\ ~EffectPending /\ ProductListView = "grid"
    /\ pag.page = 2 /\ pag.last = "setPage"
    /\ HookResult(1).data.body.page = 2 /\ HookResult(1).data.body.totalPages = 1

\* C30: a 200 response to GetProduct(id) carries the value stored last for
\* id, which is what the answer of an upstream call for id deserialised to,
\* that product of id or null, stored at the moment of that answer and at
\* most 60 seconds before the response; a response from the cache is sent
\* strictly before the entry's expiry, 60 seconds after its store; and the
\* cache entry of an id changes only in a request for that id that stores.
C30_OwnFreshSnapshot ==
    /\ [][(resp' # resp /\ resp'.result.status = 200) =>
            LET id == resp'.id
                stored == lastStore'[id]
                e == cache[CacheKey(id)]
            IN /\ stored.count > 0
               /\ resp'.result.product = stored.value
               /\ resp'.result.product \in {Null} \cup {Product(id, v) : v \in 1..MaxVer}
               /\ resp'.at = now /\ stored.at <= now /\ now - stored.at <= 60
               /\ resp'.hit => (/\ e.present /\ now < e.expiresAt
                                /\ e.expiresAt = stored.at + 60
                                /\ e.value = resp'.result.product
                                /\ stored = lastStore[id])
               /\ ~resp'.hit => (/\ resp'.answer \in UpstreamAnswers(id)
                                 /\ resp'.answer.status = 200
                                 /\ resp'.result.product = Deserialize(resp'.answer)
                                 /\ stored.at = now)]_vars
    /\ [][\A j \in Ids :
            (cache'[CacheKey(j)] # cache[CacheKey(j)] \/ lastStore'[j] # lastStore[j]) =>
               (/\ resp' # resp /\ resp'.id = j /\ ~resp'.hit
                /\ resp'.result.status = 200
                /\ cache'[CacheKey(j)].present
                /\ cache'[CacheKey(j)].value = Deserialize(resp'.answer)
                /\ lastStore'[j].value = Deserialize(resp'.answer)
                /\ lastStore'[j].at = now)]_vars

\* Product 2 is served from the cache 59 seconds after its store, product 1
\* having been stored in between.
C30_Witness ==
    /\ resp.hit /\ resp.id = 2 /\ resp.result = Ok(Product(2, 1))
    /\ resp.at = now /\ now - lastStore[2].at = 59
    /\ lastStore[1].count > 0 /\ lastStore[1].at > lastStore[2].at
    /\ cache[CacheKey(1)].present /\ cache[CacheKey(1)].value.id = 1
====
